---- MODULE Spec2Model ----
(***************************************************************************)
(* A model of caprid's rolling video buffer: the segment write loop and    *)
(* its eviction pass (src/src/processing/rolling_buffer.py), clip          *)
(* extraction (RollingBuffer.extract_clip), the two clip command lines     *)
(* (src/scripts/extract_clip.py, src/src/extract_clip.py), the wait for    *)
(* future segments, and the in-memory frame ring of StreamHandler          *)
(* (src/src/stream/stream_handler.py) with its ingest thread and the       *)
(* recordings made from it.                                                *)
(*                                                                         *)
(* Time is counted in ticks of half a second (the poll interval of         *)
(* wait_for_future_segments); segment names carry whole seconds.           *)
(***************************************************************************)
EXTENDS Integers, Sequences, FiniteSets, TLC

(***************************************************************************)
(* Bounds of the model.                                                    *)
(***************************************************************************)
\* Last tick of the clock.
MaxTime == 10
\* Largest buffer_duration / segment_duration a RollingBuffer is built with.
MaxBufferDuration == 2
MaxSegmentDuration == 2
\* Largest clip duration (seconds) a caller asks extract_clip for.
MaxDuration == 2

(***************************************************************************)
(* Program constants.                                                      *)
(***************************************************************************)
\* time.sleep(0.5): one tick is the poll interval, two ticks make a second.
TicksPerSecond == 2
\* RollingBuffer.__init__ defaults.
DefaultSegmentDuration == 1
DefaultBufferDuration == 900

VARIABLES
    now,                \* wall clock, in ticks
    segments,           \* start seconds of the segment_*.mp4 files in buffer_dir
    segment_duration,   \* RollingBuffer.segment_duration (seconds)
    buffer_duration,    \* RollingBuffer.buffer_duration (seconds)
    buffer_dir,         \* RollingBuffer.buffer_dir
    wpc,                \* position of start_recording's loop
    wstart,             \* start_time of the current write cycle (ticks)
    wake,               \* tick at which the write loop's sleep ends
    xpc,                \* position of an extract_clip call
    xstart,             \* its start_time (seconds)
    xdur,               \* its duration (seconds)
    needed,             \* its needed_segments, as segment start seconds
    manifest,           \* segments_to_concat.txt: [exists, files]
    xss,                \* ffmpeg's -ss argument (seconds)
    output,             \* the output file: [exists, size]
    cli,                \* which command line runs: "scripts" or "src"
    cpc,                \* its position
    corig,              \* the start of the requested window (seconds)
    cdur,               \* duration_seconds
    cstart,             \* start_time, the start it works with
    cout,               \* the messages it has printed, in order
    creport,            \* what print_buffer_window printed: <<first, last>> or <<>>
    cexit,              \* its exit status (-1 while it runs)
    waitpc,             \* position of wait_for_future_segments
    start_wait,         \* its start_wait (ticks)
    needed_end,         \* its needed_end_time (seconds)
    wtimeout,           \* its timeout (seconds)
    wwake,              \* tick at which its sleep ends
    healthy,            \* history: the write loop has never been late so far
    fps,                \* start_recording's fps
    wreads,             \* cap.read() calls made in the current write cycle
    wframes,            \* frames written to the current segment
    wbreak,             \* the frame loop of the current cycle was left by break
    buffer_seconds,     \* StreamHandler.buffer_seconds
    is_running,         \* StreamHandler.is_running
    current_frame,      \* StreamHandler.current_frame (NoFrame for None)
    frame_buffer,       \* StreamHandler.frame_buffer: (timestamp, frame) entries
    buffer_lock,        \* holder of StreamHandler.buffer_lock
    spc,                \* position of _stream_loop
    cap_frames,         \* frames the video capture can deliver
    nframes,            \* frames read from the capture so far
    frame,              \* _stream_loop's frame
    current_time,       \* _stream_loop's current_time (ticks)
    got,                \* the last result of get_current_frame
    gotlatest,          \* history: frames ingested when it was returned
    ngets,              \* get_current_frame calls made
    rpc,                \* position of a start_segment_recording call
    rstart,             \* its start_time (ticks)
    rend,               \* its end_time, after the clamp (ticks)
    rcall,              \* history: the call's instant, end_time and ring length
    rwarn,              \* warnings the call has logged
    rid,                \* its result (NoRecording for None)
    writer,             \* its cv2.VideoWriter: [made, frames, released]
    ridx,               \* index of _write_historical_frames' iteration
    bpc,                \* position of the caller of start_segment_recording
    timestamps,         \* record_segment_from_timestamps' timestamps
    bidx,               \* index of its loop
    recording_ids,      \* its recording_ids
    blog,               \* history: per pair handed on, [pair, made, rid]
    badnames,           \* files segment_*.mp4 of buffer_dir whose timestamp does not parse
    stuck,              \* segments whose os.remove fails
    evictlog,           \* "Error removing old segment" lines of the last eviction pass
    evicted,            \* history: the segments the last eviction pass removed
    xprev,              \* history: the previous extract_clip call
    loops,              \* _stream_loop threads started and not ended
    wnominal,           \* history: first segment's start + (cycles - 1) * segment_duration
    calls,              \* the extract_clip calls of concurrent callers
    after_stop,         \* history: frames appended to the ring since stop_stream
    client              \* a ReolinkClient and its authenticate call

bufferVars == <<segments, segment_duration, buffer_duration, buffer_dir>>
writerVars == <<wpc, wstart, wake>>
extractVars == <<xpc, xstart, xdur, needed, manifest, xss, output>>
cliVars == <<cli, cpc, corig, cdur, cstart, cout, creport, cexit>>
waitVars == <<waitpc, start_wait, needed_end, wtimeout, wwake, healthy>>
cycleVars == <<fps, wreads, wframes, wbreak>>
handlerVars == <<buffer_seconds, is_running, current_frame, frame_buffer, buffer_lock>>
loopVars == <<spc, cap_frames, nframes, frame, current_time>>
getVars == <<got, gotlatest, ngets>>
recorderVars == <<rpc, rstart, rend, rcall, rwarn, rid, writer, ridx>>
batchVars == <<bpc, timestamps, bidx, recording_ids, blog>>
streamVars == <<handlerVars, loopVars, getVars, recorderVars, batchVars>>
dirVars == <<badnames, stuck, evictlog, evicted>>
otherVars == <<wnominal, calls, after_stop, client>>
vars == <<now, bufferVars, writerVars, extractVars, cliVars, waitVars, cycleVars, streamVars,
          dirVars, xprev, loops, otherVars>>

Secs == 0 .. (MaxTime \div TicksPerSecond)
Durations == 0 .. MaxDuration

Max(S) == CHOOSE x \in S : \A y \in S : y <= x
Min(S) == CHOOSE x \in S : \A y \in S : x <= y

\* sorted(): the elements of a set of timestamps in ascending order.
RECURSIVE Sorted(_)
Sorted(S) == IF S = {} THEN <<>> ELSE <<Min(S)>> \o Sorted(S \ {Min(S)})

(***************************************************************************)
(* buffer_dir: the directory path, with the code of its first character.   *)
(* extract_clip compares a segment's joined path with a timestamp string.  *)
(***************************************************************************)
DefaultBufferDir == [path |-> "/home/pickle/src/pickle/caprid/rolling_buffer", first |-> 47]
RelativeBufferDir == [path |-> "rolling_buffer", first |-> 114]
BufferDirs == {DefaultBufferDir, RelativeBufferDir}

\* The first character of strftime("%Y%m%d_%H%M%S") for the years 2000-2999.
TimestampFirstChar == 50

\* needed_segments[0] > end_time.strftime(...): a string comparison of the
\* segment's path, which begins with buffer_dir, against the timestamp.
PathAfterTimestamp(dir) == dir.first > TimestampFirstChar

(***************************************************************************)
(* The segment list and the selection of the segments a window needs.      *)
(***************************************************************************)
SeqToSet(s) == {s[i] : i \in 1 .. Len(s)}

\* The overlap test of extract_clip (and of the command lines).
Overlaps(seg_start, start_time, end_time, segdur) ==
    seg_start + segdur > start_time /\ seg_start < end_time

\* needed_segments: the listed segments that overlap the window, in order.
NeededSegments(segs, start_time, duration, segdur) ==
    Sorted({s \in segs : Overlaps(s, start_time, start_time + duration, segdur)})

(***************************************************************************)
(* RollingBuffer.extract_clip, in three steps: select the segments (or     *)
(* raise), write the concat manifest, run ffmpeg.                          *)
(***************************************************************************)
NoOutput == [exists |-> FALSE, size |-> 0]

ExtractSelect(start_time, duration) ==
    LET sel == NeededSegments(segments, start_time, duration, segment_duration)
    IN  /\ xstart' = start_time
        /\ xdur' = duration
        /\ needed' = sel
        /\ xpc' = IF sel = <<>> \/ PathAfterTimestamp(buffer_dir)
                  THEN "raised_window" ELSE "selected"
        /\ UNCHANGED <<manifest, xss, output>>

\* open(concat_list_path, "a") would keep the lines of an earlier call.
ManifestAppended(old, need) == old \o need

\* open(concat_list_path, "w"): the file holds the lines of this call only.
ManifestWritten(old, need) == need

ExtractWriteManifest ==
    /\ xpc = "selected"
    /\ manifest' = [exists |-> TRUE, files |-> ManifestWritten(manifest.files, needed)]
    /\ xpc' = "manifest"
    /\ UNCHANGED <<xstart, xdur, needed, xss, output>>

\* What the transcode tool can leave behind.
SanityThreshold == 1024
OutputSizes == {0, SanityThreshold - 1, SanityThreshold, SanityThreshold + 1}
Outputs == {NoOutput} \cup {[exists |-> TRUE, size |-> n] : n \in OutputSizes}

\* subprocess.run(cmd, capture_output=True), without timeout=: the call
\* returns the tool's return code, or does not return while the tool runs.
ToolResults == {"zero", "nonzero", "hang"}

ExtractRunTool ==
    /\ xpc = "manifest"
    /\ xss' = xstart - needed[1]
    /\ \E res \in ToolResults, out \in Outputs :
          /\ output' = out
          /\ xpc' = CASE res = "hang" -> "hung"
                      [] res = "nonzero" -> "raised_tool"
                      [] OTHER -> "returned"
    /\ UNCHANGED <<xstart, xdur, needed, manifest>>

ExtractFinished == xpc \in {"raised_window", "raised_tool", "returned"}

(***************************************************************************)
(* A caller of the library: any start and duration.                        *)
(***************************************************************************)
LibCall ==
    /\ xpc = "idle"
    /\ \E st \in Secs, d \in Durations : ExtractSelect(st, d)
    /\ UNCHANGED <<now, bufferVars, writerVars, cliVars, waitVars>>
    /\ UNCHANGED <<cycleVars, streamVars>>
    /\ UNCHANGED <<dirVars, xprev, loops>>
    /\ UNCHANGED otherVars

LibWriteManifest ==
    /\ ExtractWriteManifest
    /\ UNCHANGED <<now, bufferVars, writerVars, cliVars, waitVars>>
    /\ UNCHANGED <<cycleVars, streamVars>>
    /\ UNCHANGED <<dirVars, xprev, loops>>
    /\ UNCHANGED otherVars

LibRunTool ==
    /\ ExtractRunTool
    /\ UNCHANGED <<now, bufferVars, writerVars, cliVars, waitVars>>
    /\ UNCHANGED <<cycleVars, streamVars>>
    /\ UNCHANGED <<dirVars, xprev, loops>>
    /\ UNCHANGED otherVars

LibDone ==
    /\ ExtractFinished
    /\ xpc' = "idle"
    /\ xstart' = 0
    /\ xdur' = 0
    /\ needed' = <<>>
    /\ xss' = 0
    /\ output' = NoOutput
    /\ UNCHANGED manifest
    /\ UNCHANGED <<now, bufferVars, writerVars, cliVars, waitVars>>
    /\ UNCHANGED <<cycleVars, streamVars>>
    /\ UNCHANGED <<dirVars, xprev, loops>>
    /\ UNCHANGED otherVars

(***************************************************************************)
(* RollingBuffer._cleanup_old_segments: walk from the newest segment to    *)
(* the oldest, add segment_duration per segment, keep while the total is   *)
(* within buffer_duration and remove the rest.                             *)
(***************************************************************************)
RECURSIVE CleanupWalk(_, _, _, _, _)
CleanupWalk(remaining, total_duration, keep, segdur, bufdur) ==
    IF remaining = {} THEN keep
    ELSE LET s == Max(remaining)
             t == total_duration + segdur
         IN  CleanupWalk(remaining \ {s}, t,
                         IF t <= bufdur THEN keep \cup {s} ELSE keep,
                         segdur, bufdur)

\* The walk with the newest segment not counted: it keeps one segment more
\* than buffer_duration holds.
SegmentsToKeepLong(segs, segdur, bufdur) == CleanupWalk(segs, 0 - segdur, {}, segdur, bufdur)

\* The walk with the newest segment counted twice: it keeps one segment
\* fewer than buffer_duration holds.
SegmentsToKeepShort(segs, segdur, bufdur) == CleanupWalk(segs, segdur, {}, segdur, bufdur)

SegmentsToKeep(segs, segdur, bufdur) == CleanupWalk(segs, 0, {}, segdur, bufdur)

\* get_segment_times: datetime.strptime of every listed name, outside any
\* try: one name that does not parse raises ValueError.
SegmentTimesRaise(bad) == bad # {}

\* try: os.remove(full_path) / except Exception as e: print(...)
RemovalErrorEscapes == FALSE

RemovalErrorCaught == TRUE

\* The removals of one pass, newest candidate first: a failed os.remove is
\* printed and the loop goes on.
RECURSIVE RemoveWalk(_, _, _, _)
RemoveWalk(candidates, left, errors, stuckset) ==
    IF candidates = {} THEN [left |-> left, errors |-> errors, raised |-> FALSE]
    ELSE LET s == Max(candidates)
         IN  IF s \in stuckset
             THEN IF RemovalErrorCaught
                  THEN RemoveWalk(candidates \ {s}, left, errors + 1, stuckset)
                  ELSE [left |-> left, errors |-> errors, raised |-> TRUE]
             ELSE RemoveWalk(candidates \ {s}, left \ {s}, errors, stuckset)

\* One call of _cleanup_old_segments: what is left in the directory, the
\* error lines printed, and whether the call raised.
CleanupPass(segs, bad, stuckset, segdur, bufdur) ==
    IF SegmentTimesRaise(bad)
    THEN [left |-> segs, errors |-> 0, raised |-> TRUE]
    ELSE RemoveWalk(segs \ SegmentsToKeep(segs, segdur, bufdur), segs, 0, stuckset)

(***************************************************************************)
(* RollingBuffer.start_recording: the write loop.  An exception of the     *)
(* eviction pass leaves the while loop through finally: cap.release().     *)
(***************************************************************************)
WriterCleanup ==
    /\ wpc = "cleanup"
    /\ LET pass == CleanupPass(segments, badnames, stuck, segment_duration, buffer_duration)
       IN  /\ segments' = pass.left
           /\ evictlog' = pass.errors
           /\ evicted' = segments \ pass.left
           /\ wpc' = IF pass.raised THEN "raised" ELSE "open"
    /\ UNCHANGED <<now, segment_duration, buffer_duration, buffer_dir, wstart, wake, extractVars, cliVars, waitVars>>
    /\ UNCHANGED <<cycleVars, streamVars>>
    /\ UNCHANGED <<badnames, stuck, xprev, loops>>
    /\ UNCHANGED otherVars

\* Before the first write cycle there is no nominal start.
NoCycle == -1

\* start_time = datetime.now(); the file is named by its whole second.
WriterOpen ==
    /\ wpc = "open"
    /\ wstart' = now
    /\ wnominal' = IF wnominal = NoCycle THEN now
                   ELSE wnominal + segment_duration * TicksPerSecond
    /\ segments' = segments \cup {now \div TicksPerSecond}
    /\ wpc' = "write"
    /\ UNCHANGED <<now, segment_duration, buffer_duration, buffer_dir, wake, extractVars, cliVars, waitVars>>
    /\ wreads' = 0
    /\ wframes' = 0
    /\ wbreak' = FALSE
    /\ UNCHANGED <<fps, streamVars>>
    /\ UNCHANGED <<dirVars, xprev, loops>>
    /\ UNCHANGED <<calls, after_stop, client>>

\* A loop that goes on to the next cycle without sleeping.
WakeAtOnce(t, start_time, segdur) == t

\* elapsed = (datetime.now() - start_time).total_seconds();
\* if elapsed < self.segment_duration: time.sleep(segment_duration - elapsed)
WakeTime(t, start_time, segdur) ==
    IF t - start_time < segdur * TicksPerSecond
    THEN start_time + segdur * TicksPerSecond
    ELSE t

\* A release that discards the file of a segment no frame was written to.
ReleaseDropsEmpty(segs, name, frames) == IF frames = 0 THEN segs \ {name} ELSE segs

\* out.release(): the file opened under the segment's name stays, whatever
\* was written to it.
ReleaseKeeps(segs, name, frames) == segs

\* The frames are read and written, the writer is released, and the sleep
\* that aligns the cycle with segment_duration is computed.
WriterRelease ==
    /\ wpc = "write"
    /\ segments' = ReleaseKeeps(segments, wstart \div TicksPerSecond, wframes)
    /\ wake' = WakeTime(now, wstart, segment_duration)
    /\ wpc' = "sleep"
    /\ UNCHANGED <<now, segment_duration, buffer_duration, buffer_dir, wstart>>
    /\ UNCHANGED <<extractVars, cliVars, waitVars>>
    /\ UNCHANGED <<cycleVars, streamVars>>
    /\ UNCHANGED <<dirVars, xprev, loops>>
    /\ UNCHANGED otherVars

WriterWake ==
    /\ wpc = "sleep"
    /\ now >= wake
    /\ wpc' = "cleanup"
    /\ UNCHANGED <<now, bufferVars, wstart, wake, extractVars, cliVars, waitVars>>
    /\ UNCHANGED <<cycleVars, streamVars>>
    /\ UNCHANGED <<dirVars, xprev, loops>>
    /\ UNCHANGED otherVars

(***************************************************************************)
(* The clock.  Nothing bounds how long a step of the program may be        *)
(* delayed: a blocked frame read stalls the write loop.                    *)
(***************************************************************************)
Tick ==
    /\ now < MaxTime
    /\ now' = now + 1
    /\ UNCHANGED <<bufferVars, writerVars, extractVars, cliVars, waitVars>>
    /\ UNCHANGED <<cycleVars, streamVars>>
    /\ UNCHANGED <<dirVars, xprev, loops>>
    /\ UNCHANGED otherVars

(***************************************************************************)
(* The rolling buffer: a RollingBuffer built with any durations and        *)
(* directory, its write loop, and a caller of extract_clip.                *)
(***************************************************************************)
WriterInit ==
    /\ wpc = "cleanup"
    /\ wstart = 0
    /\ wake = 0

ExtractInit ==
    /\ xpc = "idle"
    /\ xstart = 0
    /\ xdur = 0
    /\ needed = <<>>
    /\ manifest = [exists |-> FALSE, files |-> <<>>]
    /\ xss = 0
    /\ output = NoOutput

CliInit ==
    /\ cli = "scripts"
    /\ cpc = "start"
    /\ corig = 0
    /\ cdur = 0
    /\ cstart = 0
    /\ cout = <<>>
    /\ creport = <<>>
    /\ cexit = -1

WaitInit ==
    /\ waitpc = "idle"
    /\ start_wait = 0
    /\ needed_end = 0
    /\ wtimeout = 0
    /\ wwake = 0
    /\ healthy = TRUE

\* A buffer directory that holds only well-named segments, all removable,
\* and an extract_clip that has not been called before.
NoPrev == [called |-> FALSE]

\* No write cycle yet, no concurrent caller of extract_clip, a handler that
\* was not stopped, and no camera client.
NoClient == [pc |-> "none"]

OtherInit ==
    /\ wnominal = NoCycle
    /\ calls = <<>>
    /\ after_stop = 0
    /\ client = NoClient

DirInit ==
    /\ badnames = {}
    /\ stuck = {}
    /\ evictlog = 0
    /\ evicted = {}
    /\ xprev = NoPrev

\* fps = int(cap.get(cv2.CAP_PROP_FPS)) or 15
DefaultFps == 15

\* The frame loop of a write cycle, before the first cycle.
CycleInit ==
    /\ fps = DefaultFps
    /\ wreads = 0
    /\ wframes = 0
    /\ wbreak = FALSE

\* A frame is an array object with its picture: the picture of the k-th frame
\* of the capture is k.  NoFrame stands for None.
NoFrame == [obj |-> <<"none", 0>>, val |-> 0]

\* return None
NoRecording == -1

\* No cv2.VideoWriter has been made.
NoWriter == [made |-> 0, opened |-> FALSE, frames |-> <<>>, released |-> 0]

NoCall == [time |-> 0, end |-> 0, ring |-> 0, frame |-> FALSE]

\* StreamHandler.__init__(video_capture, buffer_seconds=30)
DefaultBufferSeconds == 30

\* A StreamHandler after construction, with no caller.
HandlerInit ==
    /\ is_running = FALSE
    /\ current_frame = NoFrame
    /\ frame_buffer = <<>>
    /\ buffer_lock = "free"
    /\ spc = "not_started"
    /\ nframes = 0
    /\ frame = NoFrame
    /\ current_time = 0
    /\ got = NoFrame
    /\ gotlatest = 0
    /\ ngets = 0
    /\ rpc = "idle"
    /\ rstart = 0
    /\ rend = 0
    /\ rcall = NoCall
    /\ rwarn = 0
    /\ rid = NoRecording
    /\ writer = NoWriter
    /\ ridx = 0
    /\ bpc = "idle"
    /\ timestamps = <<>>
    /\ bidx = 0
    /\ recording_ids = <<>>
    /\ blog = <<>>
    /\ loops = 0

\* No stream handler is at work: one built with the default ring on a
\* capture that delivers nothing.
StreamInit ==
    /\ buffer_seconds = DefaultBufferSeconds
    /\ cap_frames = 0
    /\ HandlerInit

Init ==
    /\ now \in 0 .. (TicksPerSecond - 1)
    /\ segments = {}
    /\ segment_duration \in 1 .. MaxSegmentDuration
    /\ buffer_duration \in segment_duration .. MaxBufferDuration
    /\ buffer_dir \in BufferDirs
    /\ WriterInit
    /\ ExtractInit
    /\ CliInit
    /\ WaitInit
    /\ DirInit
    /\ OtherInit
    /\ CycleInit
    /\ StreamInit

Next ==
    \/ Tick
    \/ WriterCleanup
    \/ WriterOpen
    \/ WriterRelease
    \/ WriterWake
    \/ LibCall
    \/ LibWriteManifest
    \/ LibRunTool
    \/ LibDone

Spec == Init /\ [][Next]_vars

(***************************************************************************)
(* The clip command lines.  Both build rolling_buffer = RollingBuffer()    *)
(* with the default directory and durations, and read the segment list of  *)
(* that directory.                                                         *)
(***************************************************************************)
\* print_buffer_window: the first and last listed segment, nothing when the
\* directory holds no segment.
BufferWindowReport(segs) == IF segs = {} THEN <<>> ELSE <<Min(segs), Max(segs)>>

\* scripts/extract_clip.py, lines 69-75: step start_time back by
\* segment_duration until it is a segment start or precedes the first one.
RECURSIVE StepBack(_, _, _)
StepBack(start_time, starts, segdur) ==
    IF start_time \notin starts /\ start_time >= Min(starts)
    THEN StepBack(start_time - segdur, starts, segdur)
    ELSE start_time

\* A coverage decision that also turns down a first segment starting exactly
\* at the window's start (">=" for ">").
FullyCoveredStrict(need, start_time, end_time, segdur) ==
    ~(need[1] >= start_time \/ need[Len(need)] + segdur < end_time)

\* A coverage decision that looks at the window's start only.
FullyCoveredStartOnly(need, start_time, end_time, segdur) ==
    ~(need[1] > start_time)

\* The coverage decision of both command lines: the first needed segment
\* starts at or before the window and the last one ends at or after it.
FullyCovered(need, start_time, end_time, segdur) ==
    ~(need[1] > start_time \/ need[Len(need)] + segdur < end_time)

\* The outcome of a command line's checks before the extraction:
\* [exit, out, report, start], exit = -1 when it goes on to extract_clip.
Rejected(code, msgs, segs, start_time) ==
    [exit |-> code, out |-> msgs, report |-> BufferWindowReport(segs), start |-> start_time]

CoverageOutcome(segs, start_time, duration, segdur, warned) ==
    LET need == NeededSegments(segs, start_time, duration, segdur)
    IN  IF need = <<>>
        THEN Rejected(2, warned \o <<"available segments", "not in buffer window">>,
                      segs, start_time)
        ELSE IF ~FullyCovered(need, start_time, start_time + duration, segdur)
        THEN Rejected(2, warned \o <<"available segments", "not fully covered">>,
                      segs, start_time)
        ELSE [exit |-> -1, out |-> warned, report |-> <<>>, start |-> start_time]

\* scripts/extract_clip.py, lines 60-100.
ScriptsOutcome(segs, orig_start_time, duration, segdur) ==
    IF orig_start_time \in segs
    THEN CoverageOutcome(segs, orig_start_time, duration, segdur, <<>>)
    ELSE IF segs = {}
    THEN \* sorted_starts[0] on an empty list: an uncaught IndexError
         [exit |-> 1, out |-> <<"IndexError">>, report |-> <<>>, start |-> orig_start_time]
    ELSE LET stepped == StepBack(orig_start_time, segs, segdur)
         IN  IF stepped < Min(segs)
             THEN Rejected(2, <<"available segments", "no segment at or before start">>,
                           segs, stepped)
             ELSE CoverageOutcome(segs, stepped, duration, segdur,
                                  <<"using closest earlier segment">>)

\* src/extract_clip.py, lines 85-120.
SrcOutcome(segs, start_time, duration, segdur) ==
    IF segs = {}
    THEN [exit |-> 2, out |-> <<"no segments found">>, report |-> <<>>, start |-> start_time]
    ELSE CoverageOutcome(segs, start_time, duration, segdur, <<>>)

\* The requests a command line is started with.
MaxCliSec == 11
MaxCliDuration == 3
CliSecs == 0 .. MaxCliSec
\* src/extract_clip.py: "Duration is always 10 seconds (5 before + 5 after)".
SrcDuration == 10
CliDurations == (0 .. MaxCliDuration) \cup {DefaultBufferDuration, DefaultBufferDuration + 1}

\* scripts/extract_clip.py, lines 41-58: the arguments are parsed and the
\* duration is checked against max_duration.
ScriptsParse ==
    /\ cpc = "start"
    /\ cli = "scripts"
    /\ \/ /\ cexit' = 1
          /\ cout' = <<"usage">>
          /\ cpc' = "exited"
          /\ UNCHANGED <<corig, cdur>>
       \/ \E st \in CliSecs, d \in CliDurations :
             /\ corig' = st
             /\ cdur' = d
             /\ IF d > buffer_duration
                THEN /\ cexit' = 1
                     /\ cout' = <<"exceeds buffer maximum">>
                     /\ cpc' = "exited"
                ELSE /\ cpc' = "gather"
                     /\ UNCHANGED <<cexit, cout>>
    /\ UNCHANGED <<cli, cstart, creport>>
    /\ UNCHANGED <<now, bufferVars, writerVars, extractVars, waitVars>>
    /\ UNCHANGED <<cycleVars, streamVars>>
    /\ UNCHANGED <<dirVars, xprev, loops>>
    /\ UNCHANGED otherVars

\* src/extract_clip.py, lines 62-83: the window is the 10 seconds around
\* center_time.  Here the window has ended (end_time <= now); the wait for a
\* window that ends in the future is wait_for_future_segments, below.
SrcParse ==
    /\ cpc = "start"
    /\ cli = "src"
    /\ \/ /\ cexit' = 1
          /\ cout' = <<"usage">>
          /\ cpc' = "exited"
          /\ UNCHANGED <<corig, cdur>>
       \/ \E center \in CliSecs :
             /\ corig' = center - (SrcDuration \div 2)
             /\ cdur' = SrcDuration
             /\ (center + (SrcDuration \div 2)) * TicksPerSecond <= now
             /\ cpc' = "gather"
             /\ UNCHANGED <<cexit, cout>>
    /\ UNCHANGED <<cli, cstart, creport>>
    /\ UNCHANGED <<now, bufferVars, writerVars, extractVars, waitVars>>
    /\ UNCHANGED <<cycleVars, streamVars>>
    /\ UNCHANGED <<dirVars, xprev, loops>>
    /\ UNCHANGED otherVars

\* The segments are gathered and the window's coverage is decided.
CliGather ==
    /\ cpc = "gather"
    /\ LET o == IF cli = "scripts"
                THEN ScriptsOutcome(segments, corig, cdur, segment_duration)
                ELSE SrcOutcome(segments, corig, cdur, segment_duration)
       IN  /\ cstart' = o.start
           /\ cout' = cout \o o.out
           /\ creport' = o.report
           /\ cexit' = o.exit
           /\ cpc' = IF o.exit = -1 THEN "call" ELSE "exited"
    /\ UNCHANGED <<cli, corig, cdur>>
    /\ UNCHANGED <<now, bufferVars, writerVars, extractVars, waitVars>>
    /\ UNCHANGED <<cycleVars, streamVars>>
    /\ UNCHANGED <<dirVars, xprev, loops>>
    /\ UNCHANGED otherVars

\* rolling_buffer.extract_clip(start_time, duration=duration_seconds, ...)
CliExtractCall ==
    /\ cpc = "call"
    /\ ExtractSelect(cstart, cdur)
    /\ cpc' = "extracting"
    /\ UNCHANGED <<cli, corig, cdur, cstart, cout, creport, cexit>>
    /\ UNCHANGED <<now, bufferVars, writerVars, waitVars>>
    /\ UNCHANGED <<cycleVars, streamVars>>
    /\ UNCHANGED <<dirVars, xprev, loops>>
    /\ UNCHANGED otherVars

CliWriteManifest ==
    /\ cpc = "extracting"
    /\ ExtractWriteManifest
    /\ UNCHANGED <<now, bufferVars, writerVars, cliVars, waitVars>>
    /\ UNCHANGED <<cycleVars, streamVars>>
    /\ UNCHANGED <<dirVars, xprev, loops>>
    /\ UNCHANGED otherVars

CliRunTool ==
    /\ cpc = "extracting"
    /\ ExtractRunTool
    /\ UNCHANGED <<now, bufferVars, writerVars, cliVars, waitVars>>
    /\ UNCHANGED <<cycleVars, streamVars>>
    /\ UNCHANGED <<dirVars, xprev, loops>>
    /\ UNCHANGED otherVars

\* A sanity check that only looks for the file and not at its size.
SanityOkExistsOnly(out) == out.exists

\* The sanity check of the result: the file exists and is not too small.
SanityOk(out) == ~(~out.exists \/ out.size < SanityThreshold)

\* The call has ended: an exception of extract_clip is not caught; a result
\* is checked for its size and then uploaded (the upload can fail).
CliCheck ==
    /\ cpc = "extracting"
    /\ ExtractFinished
    /\ cpc' = "exited"
    /\ IF xpc # "returned"
       THEN /\ cexit' = 1
            /\ cout' = cout \o <<"RuntimeError">>
       ELSE IF ~SanityOk(output)
       THEN /\ cexit' = 2
            /\ cout' = cout \o <<"empty or too small">>
       ELSE \E uploaded \in BOOLEAN :
               /\ cexit' = IF uploaded THEN 0 ELSE 2
               /\ cout' = cout \o <<"clip extracted">> \o
                             (IF uploaded THEN <<"uploaded">> ELSE <<"upload failed">>)
    /\ UNCHANGED <<cli, corig, cdur, cstart, creport>>
    /\ UNCHANGED <<now, bufferVars, writerVars, extractVars, waitVars>>
    /\ UNCHANGED <<cycleVars, streamVars>>
    /\ UNCHANGED <<dirVars, xprev, loops>>
    /\ UNCHANGED otherVars

\* The directories a command line is run on: a run of consecutive segments
\* with at most one run of them missing, or no segment at all.
CliDirs ==
    {{}} \cup
    {(a .. b) \ (g .. h) : a \in CliSecs, b \in CliSecs, g \in CliSecs, h \in CliSecs}

InitCli ==
    /\ now = (MaxCliSec + SrcDuration) * TicksPerSecond
    /\ segments \in CliDirs
    /\ segment_duration = DefaultSegmentDuration
    /\ buffer_duration = DefaultBufferDuration
    /\ buffer_dir = DefaultBufferDir
    /\ WriterInit
    /\ ExtractInit
    /\ cli \in {"scripts", "src"}
    /\ cpc = "start"
    /\ corig = 0
    /\ cdur = 0
    /\ cstart = 0
    /\ cout = <<>>
    /\ creport = <<>>
    /\ cexit = -1
    /\ WaitInit
    /\ DirInit
    /\ OtherInit
    /\ CycleInit
    /\ StreamInit

NextCli ==
    \/ ScriptsParse
    \/ SrcParse
    \/ CliGather
    \/ CliExtractCall
    \/ CliWriteManifest
    \/ CliRunTool
    \/ CliCheck

SpecCli == InitCli /\ [][NextCli]_vars

(***************************************************************************)
(* wait_for_future_segments (src/extract_clip.py): poll the segment list   *)
(* every half second until a segment starts at or after needed_end_time,   *)
(* the clock passes needed_end_time + 1 s, or the timeout has elapsed.     *)
(***************************************************************************)
\* time.sleep(0.5)
PollTicks == TicksPerSecond \div 2

\* Largest timeout (seconds) the wait is called with.
MaxTimeout == 2

\* A loop that never looks at the clock ("while True").
WaitLoopForever(t, end_time) == TRUE

\* while datetime.now() < needed_end_time + timedelta(seconds=1)
WaitLoopCondition(t, end_time) == t < (end_time + 1) * TicksPerSecond

\* (datetime.now() - start_wait).total_seconds() > timeout
WaitTimedOut(t, started, timeout) == t - started > timeout * TicksPerSecond

\* latest_segment >= needed_end_time, for a segment list that is not empty
WaitSatisfied(segs, end_time) == segs # {} /\ Max(segs) >= end_time

\* The tick by which a call made at tick t must have returned.
WaitDeadline(t, end_time, timeout) ==
    LET left == Min({timeout * TicksPerSecond, (end_time + 1) * TicksPerSecond - t})
    IN  t + (IF left > 0 THEN left ELSE 0) + PollTicks

\* The call: start_wait = datetime.now().  The clock of the model must be
\* able to reach the call's deadline.
WaitCall ==
    /\ waitpc = "idle"
    /\ \E end_time \in Secs, timeout \in 1 .. MaxTimeout :
          /\ WaitDeadline(now, end_time, timeout) <= MaxTime
          /\ needed_end' = end_time
          /\ wtimeout' = timeout
    /\ start_wait' = now
    /\ wwake' = now
    /\ waitpc' = "loop"
    /\ UNCHANGED healthy
    /\ UNCHANGED <<now, bufferVars, writerVars, extractVars, cliVars>>
    /\ UNCHANGED <<cycleVars, streamVars>>
    /\ UNCHANGED <<dirVars, xprev, loops>>
    /\ UNCHANGED otherVars

\* One evaluation of the loop: leave it, give up, succeed, or sleep.
WaitPoll ==
    /\ waitpc = "loop"
    /\ now >= wwake
    /\ IF ~WaitLoopCondition(now, needed_end)
       THEN waitpc' = "false" /\ UNCHANGED wwake
       ELSE IF WaitTimedOut(now, start_wait, wtimeout)
       THEN waitpc' = "timeout" /\ UNCHANGED wwake
       ELSE IF WaitSatisfied(segments, needed_end)
       THEN waitpc' = "true" /\ UNCHANGED wwake
       ELSE waitpc' = "loop" /\ wwake' = now + PollTicks
    /\ UNCHANGED <<start_wait, needed_end, wtimeout, healthy>>
    /\ UNCHANGED <<now, bufferVars, writerVars, extractVars, cliVars>>
    /\ UNCHANGED <<cycleVars, streamVars>>
    /\ UNCHANGED <<dirVars, xprev, loops>>
    /\ UNCHANGED otherVars

WaitReturned == waitpc \in {"true", "false", "timeout"}

\* The caller takes the result.
WaitDone ==
    /\ WaitReturned
    /\ waitpc' = "idle"
    /\ start_wait' = 0
    /\ needed_end' = 0
    /\ wtimeout' = 0
    /\ wwake' = 0
    /\ UNCHANGED healthy
    /\ UNCHANGED <<now, bufferVars, writerVars, extractVars, cliVars>>
    /\ UNCHANGED <<cycleVars, streamVars>>
    /\ UNCHANGED <<dirVars, xprev, loops>>
    /\ UNCHANGED otherVars

\* The write loop has a step due: it is not reading frames and not asleep.
WriterDue ==
    \/ wpc \in {"cleanup", "open"}
    \/ wpc = "write" /\ now >= wstart + segment_duration * TicksPerSecond
    \/ wpc = "sleep" /\ now >= wake

\* The clock while a wait is polling: an evaluation of the loop takes no
\* time, so the clock does not pass a poll that is due.  A write loop that
\* lets the clock pass a step that is due is no longer healthy.
TickWait ==
    /\ now < MaxTime
    /\ ~(waitpc = "loop" /\ now >= wwake)
    /\ now' = now + 1
    /\ healthy' = (healthy /\ ~WriterDue)
    /\ UNCHANGED <<waitpc, start_wait, needed_end, wtimeout, wwake>>
    /\ UNCHANGED <<bufferVars, writerVars, extractVars, cliVars>>
    /\ UNCHANGED <<cycleVars, streamVars>>
    /\ UNCHANGED <<dirVars, xprev, loops>>
    /\ UNCHANGED otherVars

InitWait ==
    /\ now \in 0 .. (TicksPerSecond - 1)
    /\ segments = {}
    /\ segment_duration = DefaultSegmentDuration
    /\ buffer_duration = DefaultBufferDuration
    /\ buffer_dir = DefaultBufferDir
    /\ WriterInit
    /\ ExtractInit
    /\ CliInit
    /\ WaitInit
    /\ DirInit
    /\ OtherInit
    /\ CycleInit
    /\ StreamInit

NextWait ==
    \/ TickWait
    \/ WriterCleanup
    \/ WriterOpen
    \/ WriterRelease
    \/ WriterWake
    \/ WaitCall
    \/ WaitPoll
    \/ WaitDone

\* The clock advances and a poll that is due is made; nothing is assumed of
\* the write loop.
SpecWait == InitWait /\ [][NextWait]_vars /\ WF_vars(TickWait) /\ WF_vars(WaitPoll)

(***************************************************************************)
(* The write cycle of start_recording frame by frame: the loop             *)
(* "for _ in range(frames_to_write)" reads a frame and writes it, and is   *)
(* left by break when a read fails.                                        *)
(***************************************************************************)
\* Largest fps the capture reports.
MaxFps == 2

\* frames_to_write = int(fps * self.segment_duration)
FramesToWrite(f, segdur) == f * segdur

\* One pass of the frame loop.
CycleReadFrame ==
    /\ wpc = "write"
    /\ ~wbreak
    /\ wreads < FramesToWrite(fps, segment_duration)
    /\ wreads' = wreads + 1
    /\ \E ret \in BOOLEAN :
          IF ~ret
          THEN wbreak' = TRUE /\ UNCHANGED wframes
          ELSE wframes' = wframes + 1 /\ UNCHANGED wbreak
    /\ UNCHANGED <<fps, now, bufferVars, writerVars, extractVars, cliVars, waitVars, streamVars>>
    /\ UNCHANGED <<dirVars, xprev, loops>>
    /\ UNCHANGED otherVars

\* out.release(), once the frame loop has ended or has been left.
CycleRelease ==
    /\ (wbreak \/ wreads = FramesToWrite(fps, segment_duration))
    /\ WriterRelease

InitCycle ==
    /\ now \in 0 .. (TicksPerSecond - 1)
    /\ segments = {}
    /\ segment_duration \in 1 .. MaxSegmentDuration
    /\ buffer_duration \in segment_duration .. MaxBufferDuration
    /\ buffer_dir = DefaultBufferDir
    /\ WriterInit
    /\ ExtractInit
    /\ CliInit
    /\ WaitInit
    /\ DirInit
    /\ OtherInit
    /\ fps \in 1 .. MaxFps
    /\ wreads = 0
    /\ wframes = 0
    /\ wbreak = FALSE
    /\ StreamInit

NextCycle ==
    \/ Tick
    \/ WriterCleanup
    \/ WriterOpen
    \/ CycleReadFrame
    \/ CycleRelease
    \/ WriterWake

SpecCycle == InitCycle /\ [][NextCycle]_vars

(***************************************************************************)
(* StreamHandler (src/src/stream/stream_handler.py): the ingest thread     *)
(* _stream_loop, which reads frames from the capture into current_frame    *)
(* and into the frame ring, and the readers of the current frame.          *)
(***************************************************************************)
\* deque(maxlen=buffer_seconds * 30)  # Assuming 30 FPS
RingFps == 30
Maxlen(bufsecs) == bufsecs * RingFps

\* An append that never drops an entry (a deque without maxlen).
DequeAppendUnbounded(d, x, maxlen) == Append(d, x)

\* deque.append on a deque with maxlen: when the deque is full, the entry at
\* the other end is discarded; a deque of maxlen 0 stays empty.
DequeAppend(d, x, maxlen) ==
    IF maxlen = 0 THEN <<>>
    ELSE IF Len(d) >= maxlen THEN Append(Tail(d), x)
    ELSE Append(d, x)

\* cap.read() returns a new array: the k-th frame of the capture.
CapFrame(k) == [obj |-> <<"cap", k>>, val |-> k]

\* A "copy" that hands out the very same array.
FrameAlias(f, id) == f

\* frame.copy(): a new array (named id) with the same picture.
FrameCopy(f, id) == [obj |-> id, val |-> f.val]

\* A loop that gives up at a failed read ("break" for "continue").
FailedReadBreaks == "done"

\* Where _stream_loop goes after a failed read: time.sleep(0.1); continue
FailedReadNext == "backoff"

\* start_stream: is_running is set and the thread is started.
StartStream ==
    /\ spc = "not_started"
    /\ is_running' = TRUE
    /\ spc' = "head"
    /\ loops' = loops + 1
    /\ UNCHANGED <<buffer_seconds, current_frame, frame_buffer, buffer_lock>>
    /\ UNCHANGED <<cap_frames, nframes, frame, current_time>>
    /\ UNCHANGED <<now, bufferVars, writerVars, extractVars, cliVars, waitVars, cycleVars>>
    /\ UNCHANGED <<getVars, recorderVars, batchVars>>
    /\ UNCHANGED <<dirVars, xprev>>
    /\ UNCHANGED otherVars

\* stop_stream
StopStream ==
    /\ is_running
    /\ is_running' = FALSE
    /\ after_stop' = 0
    /\ UNCHANGED <<buffer_seconds, current_frame, frame_buffer, buffer_lock, loopVars>>
    /\ UNCHANGED <<now, bufferVars, writerVars, extractVars, cliVars, waitVars, cycleVars>>
    /\ UNCHANGED <<getVars, recorderVars, batchVars>>
    /\ UNCHANGED <<dirVars, xprev, loops>>
    /\ UNCHANGED <<wnominal, calls, client>>

\* start_stream on a handler that was started before: is_running is set and
\* one more thread is started, whatever the threads started earlier are
\* doing.  spc follows one thread (the new one when the one followed has
\* ended); the others are counted in loops.
MaxLoops == 2

StartStreamAgain ==
    /\ spc # "not_started"
    /\ loops < MaxLoops
    /\ is_running' = TRUE
    /\ loops' = loops + 1
    /\ spc' = IF spc = "done" THEN "head" ELSE spc
    /\ UNCHANGED <<buffer_seconds, current_frame, frame_buffer, buffer_lock>>
    /\ UNCHANGED <<cap_frames, nframes, frame, current_time>>
    /\ UNCHANGED <<now, bufferVars, writerVars, extractVars, cliVars, waitVars, cycleVars>>
    /\ UNCHANGED <<getVars, recorderVars, batchVars>>
    /\ UNCHANGED <<dirVars, xprev>>
    /\ UNCHANGED otherVars

\* while self.is_running, in a thread that spc does not follow: the thread
\* ends when it finds is_running False.
OtherLoopEnds ==
    /\ ~is_running
    /\ loops > (IF spc \in {"not_started", "done"} THEN 0 ELSE 1)
    /\ loops' = loops - 1
    /\ UNCHANGED <<handlerVars, loopVars>>
    /\ UNCHANGED <<now, bufferVars, writerVars, extractVars, cliVars, waitVars, cycleVars>>
    /\ UNCHANGED <<getVars, recorderVars, batchVars>>
    /\ UNCHANGED <<dirVars, xprev>>
    /\ UNCHANGED otherVars

\* A loop that does not look at is_running.
LoopForever(running) == TRUE

\* while self.is_running:
LoopCondition(running) == running

\* while self.is_running: ret, frame = self.cap.read(); on success
\* current_time = datetime.now().
LoopRead ==
    /\ spc = "head"
    /\ IF ~LoopCondition(is_running)
       THEN /\ spc' = "done"
            /\ loops' = loops - 1
            /\ UNCHANGED <<nframes, frame, current_time>>
       ELSE \E ret \in BOOLEAN :
               IF ~ret
               THEN /\ spc' = FailedReadNext
                    /\ frame' = NoFrame
                    /\ UNCHANGED <<nframes, current_time, loops>>
               ELSE /\ nframes < cap_frames
                    /\ nframes' = nframes + 1
                    /\ frame' = CapFrame(nframes + 1)
                    /\ current_time' = now
                    /\ spc' = "set_current"
                    /\ UNCHANGED loops
    /\ UNCHANGED <<cap_frames, handlerVars>>
    /\ UNCHANGED <<now, bufferVars, writerVars, extractVars, cliVars, waitVars, cycleVars>>
    /\ UNCHANGED <<getVars, recorderVars, batchVars>>
    /\ UNCHANGED <<dirVars, xprev>>
    /\ UNCHANGED otherVars

\* time.sleep(0.1); continue
LoopBackoff ==
    /\ spc = "backoff"
    /\ spc' = "head"
    /\ UNCHANGED <<cap_frames, nframes, frame, current_time, handlerVars>>
    /\ UNCHANGED <<now, bufferVars, writerVars, extractVars, cliVars, waitVars, cycleVars>>
    /\ UNCHANGED <<getVars, recorderVars, batchVars>>
    /\ UNCHANGED <<dirVars, xprev, loops>>
    /\ UNCHANGED otherVars

\* with self.frame_lock: self.current_frame = frame.copy()
LoopSetCurrent ==
    /\ spc = "set_current"
    /\ current_frame' = FrameCopy(frame, <<"cur", nframes>>)
    /\ spc' = "append"
    /\ UNCHANGED <<buffer_seconds, is_running, frame_buffer, buffer_lock>>
    /\ UNCHANGED <<cap_frames, nframes, frame, current_time>>
    /\ UNCHANGED <<now, bufferVars, writerVars, extractVars, cliVars, waitVars, cycleVars>>
    /\ UNCHANGED <<getVars, recorderVars, batchVars>>
    /\ UNCHANGED <<dirVars, xprev, loops>>
    /\ UNCHANGED otherVars

\* with self.buffer_lock: self.frame_buffer.append((current_time, frame.copy()))
LoopAppend ==
    /\ spc = "append"
    /\ buffer_lock = "free"
    /\ frame_buffer' =
          DequeAppend(frame_buffer,
                      [timestamp |-> current_time,
                       frame |-> FrameCopy(frame, <<"buf", nframes>>)],
                      Maxlen(buffer_seconds))
    /\ after_stop' = IF is_running THEN after_stop ELSE after_stop + 1
    /\ spc' = "sleep"
    /\ UNCHANGED <<buffer_seconds, is_running, current_frame, buffer_lock>>
    /\ UNCHANGED <<cap_frames, nframes, frame, current_time>>
    /\ UNCHANGED <<now, bufferVars, writerVars, extractVars, cliVars, waitVars, cycleVars>>
    /\ UNCHANGED <<getVars, recorderVars, batchVars>>
    /\ UNCHANGED <<dirVars, xprev, loops>>
    /\ UNCHANGED <<wnominal, calls, client>>

\* The frame callback (its exceptions are caught) and time.sleep(0.033).
LoopSleep ==
    /\ spc = "sleep"
    /\ spc' = "head"
    /\ UNCHANGED <<cap_frames, nframes, frame, current_time, handlerVars>>
    /\ UNCHANGED <<now, bufferVars, writerVars, extractVars, cliVars, waitVars, cycleVars>>
    /\ UNCHANGED <<getVars, recorderVars, batchVars>>
    /\ UNCHANGED <<dirVars, xprev, loops>>
    /\ UNCHANGED otherVars

\* The frames stored in current_frame so far.
Ingested == IF spc = "set_current" THEN nframes - 1 ELSE nframes

\* The frames appended to the ring so far.
Appended == IF spc \in {"set_current", "append"} THEN nframes - 1 ELSE nframes

\* Largest number of get_current_frame calls.
MaxGets == 2

\* get_current_frame: under frame_lock, a copy of current_frame or None.
GetCurrentFrame ==
    /\ ngets < MaxGets
    /\ ngets' = ngets + 1
    /\ got' = IF current_frame # NoFrame
              THEN FrameCopy(current_frame, <<"got", ngets + 1>>)
              ELSE NoFrame
    /\ gotlatest' = Ingested
    /\ UNCHANGED <<handlerVars, loopVars, recorderVars, batchVars>>
    /\ UNCHANGED <<now, bufferVars, writerVars, extractVars, cliVars, waitVars, cycleVars>>
    /\ UNCHANGED <<dirVars, xprev, loops>>
    /\ UNCHANGED otherVars

\* The picture of an array its holder has drawn on.
Scribbled == -1

\* What a holder of array f sees after the array a has been drawn on.
AfterScribble(f, a) == IF f.obj = a.obj THEN [f EXCEPT !.val = Scribbled] ELSE f

\* The caller of get_current_frame draws on the array it was given: every
\* holder of that same array sees the change.
CallerScribbles ==
    /\ got # NoFrame
    /\ got.val # Scribbled
    /\ got' = AfterScribble(got, got)
    /\ current_frame' = AfterScribble(current_frame, got)
    /\ frame' = AfterScribble(frame, got)
    /\ frame_buffer' = [i \in 1 .. Len(frame_buffer) |->
                          [frame_buffer[i] EXCEPT !.frame = AfterScribble(@, got)]]
    /\ UNCHANGED <<buffer_seconds, is_running, buffer_lock>>
    /\ UNCHANGED <<spc, cap_frames, nframes, current_time, gotlatest, ngets>>
    /\ UNCHANGED <<recorderVars, batchVars>>
    /\ UNCHANGED <<now, bufferVars, writerVars, extractVars, cliVars, waitVars, cycleVars>>
    /\ UNCHANGED <<dirVars, xprev, loops>>
    /\ UNCHANGED otherVars

\* Largest buffer_seconds a StreamHandler is built with.
MaxBufferSeconds == 1
\* Frames the capture delivers to a handler whose ring is to overflow.
MaxRingFrames == 32

\* A StreamHandler on a capture of MaxRingFrames frames.  All of them arrive
\* within one tick of the clock.
InitIngest ==
    /\ now = 0
    /\ segments = {}
    /\ segment_duration = DefaultSegmentDuration
    /\ buffer_duration = DefaultBufferDuration
    /\ buffer_dir = DefaultBufferDir
    /\ WriterInit
    /\ ExtractInit
    /\ CliInit
    /\ WaitInit
    /\ DirInit
    /\ OtherInit
    /\ CycleInit
    /\ buffer_seconds \in 0 .. MaxBufferSeconds
    /\ cap_frames = MaxRingFrames
    /\ HandlerInit

NextIngest ==
    \/ StartStream
    \/ StopStream
    \/ LoopRead
    \/ LoopBackoff
    \/ LoopSetCurrent
    \/ LoopAppend
    \/ LoopSleep
    \/ GetCurrentFrame
    \/ CallerScribbles

\* The ingest thread runs: its back-off sleep ends.
SpecIngest == InitIngest /\ [][NextIngest]_vars /\ WF_vars(LoopBackoff)

(***************************************************************************)
(* StreamHandler.start_segment_recording and _write_historical_frames: a   *)
(* clip of the frames of the ring whose timestamps lie in a window, and    *)
(* record_segment_from_timestamps, which records a list of windows.        *)
(***************************************************************************)
\* Last tick of the clock beside a stream handler.
MaxStreamTime == 2
\* Frames the capture delivers beside a recording.
MaxFrames == 3
\* Longest list record_segment_from_timestamps is given.
MaxPairs == 2

\* The instants a caller names: any tick of the clock, or one after its last.
StreamTimes == 0 .. MaxStreamTime
CallTimes == 0 .. (MaxStreamTime + 1)

\* An end_time that is taken as given.
ClampNone(end_time, t) == end_time

\* if end_time > current_time: end_time = current_time
ClampEnd(end_time, t) == IF end_time > t THEN t ELSE end_time

\* A window that leaves out its end.
InWindowExclusive(ts, start_time, end_time) == start_time <= ts /\ ts < end_time

\* if start_time <= timestamp <= end_time
InWindow(ts, start_time, end_time) == start_time <= ts /\ ts <= end_time

\* start_segment_recording, lines 73-79: recording_id and current_time are
\* taken, a future end_time is clamped and the clamp is logged as a warning.
StartSegmentRecording(start_time, end_time) ==
    /\ rpc = "idle"
    /\ rcall' = [time |-> now, end |-> end_time, ring |-> Len(frame_buffer),
                 frame |-> current_frame # NoFrame]
    /\ rstart' = start_time
    /\ rend' = ClampEnd(end_time, now)
    /\ rwarn' = IF end_time > now THEN 1 ELSE 0
    /\ rid' = NoRecording
    /\ writer' = NoWriter
    /\ ridx' = 0
    /\ rpc' = "check_frame"

\* A check that lets every call through.
FrameAlwaysAvailable(cf) == TRUE

\* if self.current_frame is not None:
FrameAvailable(cf) == cf # NoFrame

\* if self.current_frame is not None: ... else: return None
RecCheckFrame ==
    /\ rpc = "check_frame"
    /\ rpc' = IF FrameAvailable(current_frame) THEN "open" ELSE "returned"
    /\ UNCHANGED <<rstart, rend, rcall, rwarn, rid, writer, ridx, batchVars>>
    /\ UNCHANGED <<handlerVars, loopVars, getVars>>
    /\ UNCHANGED <<now, bufferVars, writerVars, extractVars, cliVars, waitVars, cycleVars>>
    /\ UNCHANGED <<dirVars, xprev, loops>>
    /\ UNCHANGED otherVars

\* writer = cv2.VideoWriter(...); if not writer.isOpened(): return None
RecOpenWriter ==
    /\ rpc = "open"
    /\ \E ok \in BOOLEAN :
          /\ writer' = [made |-> 1, opened |-> ok, frames |-> <<>>, released |-> 0]
          /\ rpc' = IF ok THEN "lock" ELSE "returned"
    /\ UNCHANGED <<rstart, rend, rcall, rwarn, rid, ridx, batchVars>>
    /\ UNCHANGED <<handlerVars, loopVars, getVars>>
    /\ UNCHANGED <<now, bufferVars, writerVars, extractVars, cliVars, waitVars, cycleVars>>
    /\ UNCHANGED <<dirVars, xprev, loops>>
    /\ UNCHANGED otherVars

\* _write_historical_frames: with self.buffer_lock
RecAcquire ==
    /\ rpc = "lock"
    /\ buffer_lock = "free"
    /\ buffer_lock' = "recorder"
    /\ ridx' = 1
    /\ rpc' = "write"
    /\ UNCHANGED <<rstart, rend, rcall, rwarn, rid, writer, batchVars>>
    /\ UNCHANGED <<buffer_seconds, is_running, current_frame, frame_buffer, loopVars, getVars>>
    /\ UNCHANGED <<now, bufferVars, writerVars, extractVars, cliVars, waitVars, cycleVars>>
    /\ UNCHANGED <<dirVars, xprev, loops>>
    /\ UNCHANGED otherVars

\* One pass of "for timestamp, frame in self.frame_buffer": a frame in the
\* window is written.  The writer's frames are kept with their timestamps.
RecWriteStep ==
    /\ rpc = "write"
    /\ ridx <= Len(frame_buffer)
    /\ writer' = IF InWindow(frame_buffer[ridx].timestamp, rstart, rend)
                 THEN [writer EXCEPT !.frames = Append(@, frame_buffer[ridx])]
                 ELSE writer
    /\ ridx' = ridx + 1
    /\ UNCHANGED <<rpc, rstart, rend, rcall, rwarn, rid, batchVars>>
    /\ UNCHANGED <<handlerVars, loopVars, getVars>>
    /\ UNCHANGED <<now, bufferVars, writerVars, extractVars, cliVars, waitVars, cycleVars>>
    /\ UNCHANGED <<dirVars, xprev, loops>>
    /\ UNCHANGED otherVars

\* The loop has ended: buffer_lock is given up.
RecUnlock ==
    /\ rpc = "write"
    /\ ridx > Len(frame_buffer)
    /\ buffer_lock' = "free"
    /\ rpc' = "release"
    /\ UNCHANGED <<rstart, rend, rcall, rwarn, rid, writer, ridx, batchVars>>
    /\ UNCHANGED <<buffer_seconds, is_running, current_frame, frame_buffer, loopVars, getVars>>
    /\ UNCHANGED <<now, bufferVars, writerVars, extractVars, cliVars, waitVars, cycleVars>>
    /\ UNCHANGED <<dirVars, xprev, loops>>
    /\ UNCHANGED otherVars

\* writer.release(); return recording_id ("recording_<seconds at the call>")
RecRelease ==
    /\ rpc = "release"
    /\ writer' = [writer EXCEPT !.released = @ + 1]
    /\ rid' = rcall.time \div TicksPerSecond
    /\ rpc' = "returned"
    /\ UNCHANGED <<rstart, rend, rcall, rwarn, ridx, batchVars>>
    /\ UNCHANGED <<handlerVars, loopVars, getVars>>
    /\ UNCHANGED <<now, bufferVars, writerVars, extractVars, cliVars, waitVars, cycleVars>>
    /\ UNCHANGED <<dirVars, xprev, loops>>
    /\ UNCHANGED otherVars

\* The call's locals, once its result has been taken.
RecorderReset ==
    /\ rpc' = "idle"
    /\ rstart' = 0
    /\ rend' = 0
    /\ rcall' = NoCall
    /\ rwarn' = 0
    /\ rid' = NoRecording
    /\ writer' = NoWriter
    /\ ridx' = 0

\* A caller of start_segment_recording with any window.
DirectCall ==
    /\ bpc = "idle"
    /\ \E start_time \in StreamTimes, end_time \in CallTimes :
          StartSegmentRecording(start_time, end_time)
    /\ bpc' = "direct"
    /\ UNCHANGED <<timestamps, bidx, recording_ids, blog>>
    /\ UNCHANGED <<handlerVars, loopVars, getVars>>
    /\ UNCHANGED <<now, bufferVars, writerVars, extractVars, cliVars, waitVars, cycleVars>>
    /\ UNCHANGED <<dirVars, xprev, loops>>
    /\ UNCHANGED otherVars

DirectDone ==
    /\ bpc = "direct"
    /\ rpc = "returned"
    /\ RecorderReset
    /\ bpc' = "idle"
    /\ UNCHANGED <<timestamps, bidx, recording_ids, blog>>
    /\ UNCHANGED <<handlerVars, loopVars, getVars>>
    /\ UNCHANGED <<now, bufferVars, writerVars, extractVars, cliVars, waitVars, cycleVars>>
    /\ UNCHANGED <<dirVars, xprev, loops>>
    /\ UNCHANGED otherVars

\* The windows record_segment_from_timestamps is given: one that lies in the
\* past at every tick and one whose end lies in the future.
BatchPairs == {<<0, 0>>, <<0, MaxStreamTime + 1>>}
BatchLists == UNION {[1 .. n -> BatchPairs] : n \in 0 .. MaxPairs}

\* An "if" that keeps every result, None too.
BatchKeepsAll(recording_id) == TRUE

\* if recording_id:
BatchKeeps(recording_id) == recording_id # NoRecording

\* record_segment_from_timestamps: recording_ids = []
RecordCall ==
    /\ bpc = "idle"
    /\ timestamps' \in BatchLists
    /\ bidx' = 1
    /\ recording_ids' = <<>>
    /\ blog' = <<>>
    /\ bpc' = "loop"
    /\ UNCHANGED recorderVars
    /\ UNCHANGED <<handlerVars, loopVars, getVars>>
    /\ UNCHANGED <<now, bufferVars, writerVars, extractVars, cliVars, waitVars, cycleVars>>
    /\ UNCHANGED <<dirVars, xprev, loops>>
    /\ UNCHANGED otherVars

\* for i, (start_time, end_time) in enumerate(timestamps):
\*     recording_id = self.start_segment_recording(start_time, end_time, ...)
BatchStart ==
    /\ bpc = "loop"
    /\ bidx <= Len(timestamps)
    /\ StartSegmentRecording(timestamps[bidx][1], timestamps[bidx][2])
    /\ bpc' = "in_call"
    /\ UNCHANGED <<timestamps, bidx, recording_ids, blog>>
    /\ UNCHANGED <<handlerVars, loopVars, getVars>>
    /\ UNCHANGED <<now, bufferVars, writerVars, extractVars, cliVars, waitVars, cycleVars>>
    /\ UNCHANGED <<dirVars, xprev, loops>>
    /\ UNCHANGED otherVars

\* if recording_id: recording_ids.append(recording_id)
BatchCollect ==
    /\ bpc = "in_call"
    /\ rpc = "returned"
    /\ recording_ids' = IF BatchKeeps(rid) THEN Append(recording_ids, rid)
                        ELSE recording_ids
    /\ blog' = Append(blog, [pair |-> <<rstart, rcall.end>>, frame |-> rcall.frame,
                             made |-> writer.made, opened |-> writer.opened,
                             rid |-> rid])
    /\ bidx' = bidx + 1
    /\ bpc' = "loop"
    /\ RecorderReset
    /\ UNCHANGED timestamps
    /\ UNCHANGED <<handlerVars, loopVars, getVars>>
    /\ UNCHANGED <<now, bufferVars, writerVars, extractVars, cliVars, waitVars, cycleVars>>
    /\ UNCHANGED <<dirVars, xprev, loops>>
    /\ UNCHANGED otherVars

\* return recording_ids
BatchReturn ==
    /\ bpc = "loop"
    /\ bidx > Len(timestamps)
    /\ bpc' = "returned"
    /\ UNCHANGED <<timestamps, bidx, recording_ids, blog, recorderVars>>
    /\ UNCHANGED <<handlerVars, loopVars, getVars>>
    /\ UNCHANGED <<now, bufferVars, writerVars, extractVars, cliVars, waitVars, cycleVars>>
    /\ UNCHANGED <<dirVars, xprev, loops>>
    /\ UNCHANGED otherVars

BatchDone ==
    /\ bpc = "returned"
    /\ bpc' = "idle"
    /\ timestamps' = <<>>
    /\ bidx' = 0
    /\ recording_ids' = <<>>
    /\ blog' = <<>>
    /\ UNCHANGED recorderVars
    /\ UNCHANGED <<handlerVars, loopVars, getVars>>
    /\ UNCHANGED <<now, bufferVars, writerVars, extractVars, cliVars, waitVars, cycleVars>>
    /\ UNCHANGED <<dirVars, xprev, loops>>
    /\ UNCHANGED otherVars

\* The clock beside a stream handler.
TickStream ==
    /\ now < MaxStreamTime
    /\ now' = now + 1
    /\ UNCHANGED <<bufferVars, writerVars, extractVars, cliVars, waitVars, cycleVars, streamVars>>
    /\ UNCHANGED <<dirVars, xprev, loops>>
    /\ UNCHANGED otherVars

\* A StreamHandler with the default ring on a capture of MaxFrames frames.
InitRecord ==
    /\ now = 0
    /\ segments = {}
    /\ segment_duration = DefaultSegmentDuration
    /\ buffer_duration = DefaultBufferDuration
    /\ buffer_dir = DefaultBufferDir
    /\ WriterInit
    /\ ExtractInit
    /\ CliInit
    /\ WaitInit
    /\ DirInit
    /\ OtherInit
    /\ CycleInit
    /\ buffer_seconds = DefaultBufferSeconds
    /\ cap_frames = MaxFrames
    /\ HandlerInit

NextRecord ==
    \/ TickStream
    \/ StartStream
    \/ StopStream
    \/ LoopRead
    \/ LoopBackoff
    \/ LoopSetCurrent
    \/ LoopAppend
    \/ LoopSleep
    \/ DirectCall
    \/ DirectDone
    \/ RecCheckFrame
    \/ RecOpenWriter
    \/ RecAcquire
    \/ RecWriteStep
    \/ RecUnlock
    \/ RecRelease

SpecRecord == InitRecord /\ [][NextRecord]_vars

\* Frames the capture delivers beside record_segment_from_timestamps.
MaxBatchFrames == 1

\* A StreamHandler with the default ring beside a caller of
\* record_segment_from_timestamps.
InitBatch ==
    /\ now = 0
    /\ segments = {}
    /\ segment_duration = DefaultSegmentDuration
    /\ buffer_duration = DefaultBufferDuration
    /\ buffer_dir = DefaultBufferDir
    /\ WriterInit
    /\ ExtractInit
    /\ CliInit
    /\ WaitInit
    /\ DirInit
    /\ OtherInit
    /\ CycleInit
    /\ buffer_seconds = DefaultBufferSeconds
    /\ cap_frames = MaxBatchFrames
    /\ HandlerInit

NextBatch ==
    \/ TickStream
    \/ StartStream
    \/ StopStream
    \/ LoopRead
    \/ LoopBackoff
    \/ LoopSetCurrent
    \/ LoopAppend
    \/ LoopSleep
    \/ RecordCall
    \/ BatchStart
    \/ BatchCollect
    \/ BatchReturn
    \/ BatchDone
    \/ RecCheckFrame
    \/ RecOpenWriter
    \/ RecAcquire
    \/ RecWriteStep
    \/ RecUnlock
    \/ RecRelease

SpecBatch == InitBatch /\ [][NextBatch]_vars

(***************************************************************************)
(* The write loop over a directory left by an earlier run: it may hold     *)
(* older segments, a file segment_*.mp4 whose name carries no timestamp,   *)
(* and files that os.remove cannot remove.                                 *)
(***************************************************************************)
MaxPrior == 3

BadNames == {"segment_backup.mp4"}

PriorSecs == 0 .. (MaxPrior - 1)

StuckSecs == 0 .. MaxPrior

InitDir ==
    /\ now \in (MaxPrior * TicksPerSecond) .. (MaxPrior * TicksPerSecond + TicksPerSecond - 1)
    /\ segments \in SUBSET PriorSecs
    /\ segment_duration \in 1 .. MaxSegmentDuration
    /\ buffer_duration \in segment_duration .. MaxBufferDuration
    /\ buffer_dir = DefaultBufferDir
    /\ badnames \in SUBSET BadNames
    /\ stuck \in SUBSET StuckSecs
    /\ evictlog = 0
    /\ evicted = {}
    /\ xprev = NoPrev
    /\ OtherInit
    /\ WriterInit
    /\ ExtractInit
    /\ CliInit
    /\ WaitInit
    /\ CycleInit
    /\ StreamInit

NextDir ==
    \/ Tick
    \/ WriterCleanup
    \/ WriterOpen
    \/ WriterRelease
    \/ WriterWake

SpecDir == InitDir /\ [][NextDir]_vars

(***************************************************************************)
(* A caller that calls extract_clip again and again on a directory no      *)
(* write loop is working on.                                               *)
(***************************************************************************)
MaxDirSec == 2

DirSecs == 0 .. MaxDirSec

RepeatCall ==
    /\ xpc = "idle"
    /\ \E st \in DirSecs, d \in Durations : ExtractSelect(st, d)
    /\ UNCHANGED <<now, bufferVars, writerVars, cliVars, waitVars>>
    /\ UNCHANGED <<cycleVars, streamVars>>
    /\ UNCHANGED <<dirVars, xprev, loops>>
    /\ UNCHANGED otherVars

\* The call is over (returned or raised); xprev keeps what it worked with.
RepeatDone ==
    /\ ExtractFinished
    /\ xprev' = [called |-> TRUE, start |-> xstart, duration |-> xdur,
                 needed |-> needed,
                 files |-> IF xpc = "raised_window" THEN <<>> ELSE manifest.files,
                 ss |-> xss, raised_window |-> (xpc = "raised_window")]
    /\ xpc' = "idle"
    /\ xstart' = 0
    /\ xdur' = 0
    /\ needed' = <<>>
    /\ xss' = 0
    /\ output' = NoOutput
    /\ UNCHANGED manifest
    /\ UNCHANGED <<now, bufferVars, writerVars, cliVars, waitVars>>
    /\ UNCHANGED <<cycleVars, streamVars>>
    /\ UNCHANGED <<dirVars, loops>>
    /\ UNCHANGED otherVars

InitRepeat ==
    /\ now = 0
    /\ segments \in SUBSET DirSecs
    /\ segment_duration \in 1 .. MaxSegmentDuration
    /\ buffer_duration \in segment_duration .. MaxBufferDuration
    /\ buffer_dir \in BufferDirs
    /\ WriterInit
    /\ ExtractInit
    /\ CliInit
    /\ WaitInit
    /\ DirInit
    /\ OtherInit
    /\ CycleInit
    /\ StreamInit

NextRepeat ==
    \/ RepeatCall
    \/ LibWriteManifest
    \/ LibRunTool
    \/ RepeatDone

SpecRepeat == InitRepeat /\ [][NextRepeat]_vars

(***************************************************************************)
(* A StreamHandler whose caller calls start_stream and stop_stream in any  *)
(* order, any number of times.                                             *)
(***************************************************************************)
InitThreads ==
    /\ now = 0
    /\ segments = {}
    /\ segment_duration = DefaultSegmentDuration
    /\ buffer_duration = DefaultBufferDuration
    /\ buffer_dir = DefaultBufferDir
    /\ WriterInit
    /\ ExtractInit
    /\ CliInit
    /\ WaitInit
    /\ DirInit
    /\ OtherInit
    /\ CycleInit
    /\ buffer_seconds \in 0 .. MaxBufferSeconds
    /\ cap_frames = MaxFrames
    /\ HandlerInit

NextThreads ==
    \/ StartStream
    \/ StartStreamAgain
    \/ StopStream
    \/ OtherLoopEnds
    \/ LoopRead
    \/ LoopBackoff
    \/ LoopSetCurrent
    \/ LoopAppend
    \/ LoopSleep

SpecThreads == InitThreads /\ [][NextThreads]_vars

\* The ingest thread is scheduled: every step of its loop that can be
\* taken is taken in the end.
SpecStop ==
    /\ InitIngest
    /\ [][NextIngest]_vars
    /\ WF_vars(LoopRead)
    /\ WF_vars(LoopBackoff)
    /\ WF_vars(LoopSetCurrent)
    /\ WF_vars(LoopAppend)
    /\ WF_vars(LoopSleep)

(***************************************************************************)
(* Several callers in extract_clip at the same time, on one RollingBuffer  *)
(* with the default directory and durations and no write loop.  calls[c]   *)
(* holds the locals of caller c's call; the manifest is the one file       *)
(* buffer_dir/segments_to_concat.txt.                                      *)
(***************************************************************************)
MaxCallers == 2

Callers == 1 .. MaxCallers

IdleCall == [pc |-> "idle", start |-> 0, duration |-> 0, needed |-> <<>>, read |-> <<>>]

\* f.write(...) through a file object opened with "w": the lines go to the
\* start of the file and what the file holds beyond them stays.
WriteOver(old, lines) ==
    IF Len(old) > Len(lines)
    THEN lines \o SubSeq(old, Len(lines) + 1, Len(old))
    ELSE lines

\* lines 53-67: the selection, or the error.
ConcCall ==
    \E c \in Callers, st \in DirSecs, d \in Durations :
       /\ calls[c].pc = "idle"
       /\ LET sel == NeededSegments(segments, st, d, segment_duration)
          IN  calls' = [calls EXCEPT ![c] =
                          [pc |-> IF sel = <<>> \/ PathAfterTimestamp(buffer_dir)
                                  THEN "raised_window" ELSE "selected",
                           start |-> st, duration |-> d, needed |-> sel, read |-> <<>>]]
       /\ UNCHANGED manifest
    /\ UNCHANGED <<now, bufferVars, writerVars, xpc, xstart, xdur, needed, xss, output, cliVars, waitVars>>
    /\ UNCHANGED <<cycleVars, streamVars>>
    /\ UNCHANGED <<dirVars, xprev, loops>>
    /\ UNCHANGED <<wnominal, after_stop, client>>

\* open(concat_list_path, "w"): the file is made or emptied.
ConcOpenManifest ==
    \E c \in Callers :
       /\ calls[c].pc = "selected"
       /\ manifest' = [exists |-> TRUE, files |-> <<>>]
       /\ calls' = [calls EXCEPT ![c].pc = "writing"]
    /\ UNCHANGED <<now, bufferVars, writerVars, xpc, xstart, xdur, needed, xss, output, cliVars, waitVars>>
    /\ UNCHANGED <<cycleVars, streamVars>>
    /\ UNCHANGED <<dirVars, xprev, loops>>
    /\ UNCHANGED <<wnominal, after_stop, client>>

\* The end of the with block: the lines written reach the file.
ConcCloseManifest ==
    \E c \in Callers :
       /\ calls[c].pc = "writing"
       /\ manifest' = [exists |-> TRUE, files |-> WriteOver(manifest.files, calls[c].needed)]
       /\ calls' = [calls EXCEPT ![c].pc = "manifest"]
    /\ UNCHANGED <<now, bufferVars, writerVars, xpc, xstart, xdur, needed, xss, output, cliVars, waitVars>>
    /\ UNCHANGED <<cycleVars, streamVars>>
    /\ UNCHANGED <<dirVars, xprev, loops>>
    /\ UNCHANGED <<wnominal, after_stop, client>>

\* subprocess.run(cmd, ...): ffmpeg reads the file named by -i.
ConcRunTool ==
    \E c \in Callers :
       /\ calls[c].pc = "manifest"
       /\ calls' = [calls EXCEPT ![c].pc = "ran", ![c].read = manifest.files]
       /\ UNCHANGED manifest
    /\ UNCHANGED <<now, bufferVars, writerVars, xpc, xstart, xdur, needed, xss, output, cliVars, waitVars>>
    /\ UNCHANGED <<cycleVars, streamVars>>
    /\ UNCHANGED <<dirVars, xprev, loops>>
    /\ UNCHANGED <<wnominal, after_stop, client>>

\* The call is over.
ConcDone ==
    \E c \in Callers :
       /\ calls[c].pc \in {"raised_window", "ran"}
       /\ calls' = [calls EXCEPT ![c] = IdleCall]
       /\ UNCHANGED manifest
    /\ UNCHANGED <<now, bufferVars, writerVars, xpc, xstart, xdur, needed, xss, output, cliVars, waitVars>>
    /\ UNCHANGED <<cycleVars, streamVars>>
    /\ UNCHANGED <<dirVars, xprev, loops>>
    /\ UNCHANGED <<wnominal, after_stop, client>>

InitConc ==
    /\ now = 0
    /\ segments \in SUBSET DirSecs
    /\ segment_duration = DefaultSegmentDuration
    /\ buffer_duration = DefaultBufferDuration
    /\ buffer_dir = DefaultBufferDir
    /\ WriterInit
    /\ ExtractInit
    /\ CliInit
    /\ WaitInit
    /\ DirInit
    /\ wnominal = NoCycle
    /\ calls = [c \in Callers |-> IdleCall]
    /\ after_stop = 0
    /\ client = NoClient
    /\ CycleInit
    /\ StreamInit

NextConc ==
    \/ ConcCall
    \/ ConcOpenManifest
    \/ ConcCloseManifest
    \/ ConcRunTool
    \/ ConcDone

SpecConc == InitConc /\ [][NextConc]_vars

(***************************************************************************)
(* ReolinkClient.authenticate.  The camera's answers are any: per login    *)
(* format a login with or without a token, a demand for a session          *)
(* (rspCode -6), or a failure (another code, HTML, a status other than     *)
(* 200, an exception of requests.post).                                    *)
(***************************************************************************)
\* def __init__(self, host, username, password, port: int = 80)
DefaultPort == 80

\* https_port = 443 if self.port == 80 else self.port
HttpsPort == 443

\* for alt_port in [8000, 443, 9000]:
AltPorts == <<8000, 443, 9000>>

ConfigPorts == {DefaultPort, HttpsPort, 8000, 8080}

\* len(auth_formats)
AuthFormats == 3

Responses == {"token", "no_token", "session", "fail"}

SessionResults == {"token", "no_token", "fail"}

NoToken == "None"

Tokens == {"token_1", "token_2"}

\* _attempt_auth from format i on: the first answer that is not a failure
\* decides; rspCode -6 hands over to _try_session_auth and returns its
\* result without trying the formats that are left.
RECURSIVE AttemptAuth(_, _, _)
AttemptAuth(resps, sess, i) ==
    IF i > AuthFormats THEN [ok |-> FALSE, token |-> FALSE, formats |-> AuthFormats]
    ELSE CASE resps[i] = "token" -> [ok |-> TRUE, token |-> TRUE, formats |-> i]
           [] resps[i] = "no_token" -> [ok |-> TRUE, token |-> FALSE, formats |-> i]
           [] resps[i] = "session" ->
                 [ok |-> sess # "fail", token |-> sess = "token", formats |-> i]
           [] OTHER -> AttemptAuth(resps, sess, i + 1)

\* An alternative port that is kept whether or not the attempt succeeded.
PortAlwaysAlt(ok, alt_port, port) == alt_port

\* if self._try_auth_with_port(alt_port): self.port = alt_port
PortAfterAlt(ok, alt_port, port) == IF ok THEN alt_port ELSE port

\* A client after __init__.
NewClient(port) ==
    [pc |-> "new", port |-> port, token |-> NoToken, port_at_call |-> port,
     token_at_call |-> NoToken, tried |-> <<>>, idx |-> 0, ret |-> FALSE, ncalls |-> 0]

MaxAuthCalls == 2

\* authenticate() is called, on a new client or on one that was
\* authenticated before.
AuthCall ==
    /\ client.pc \in {"new", "returned"}
    /\ client.ncalls < MaxAuthCalls
    /\ client' = [client EXCEPT !.pc = "standard", !.port_at_call = client.port,
                                !.token_at_call = client.token, !.tried = <<>>,
                                !.idx = 0, !.ret = FALSE, !.ncalls = @ + 1]
    /\ UNCHANGED <<now, bufferVars, writerVars, extractVars, cliVars, waitVars>>
    /\ UNCHANGED <<cycleVars, streamVars>>
    /\ UNCHANGED <<dirVars, xprev, loops>>
    /\ UNCHANGED <<wnominal, calls, after_stop>>

\* One method of authenticate: _attempt_auth on a url, with any answers.
Attempt(method, port, alt, next) ==
    \E resps \in [1 .. AuthFormats -> Responses], sess \in SessionResults, tok \in Tokens :
       LET r == AttemptAuth(resps, sess, 1)
       IN  client' = [client EXCEPT
                         !.tried = Append(@, [method |-> method, port |-> port,
                                              ok |-> r.ok, formats |-> r.formats]),
                         !.token = IF r.token THEN tok ELSE @,
                         !.port = IF alt THEN PortAfterAlt(r.ok, port, @) ELSE @,
                         !.ret = r.ok,
                         !.idx = IF alt THEN @ + 1 ELSE 1,
                         !.pc = IF r.ok THEN "returned" ELSE next]

\* if self._try_standard_auth(): return True
AuthStandard ==
    /\ client.pc = "standard"
    /\ Attempt("http", client.port, FALSE, "https")
    /\ UNCHANGED <<now, bufferVars, writerVars, extractVars, cliVars, waitVars>>
    /\ UNCHANGED <<cycleVars, streamVars>>
    /\ UNCHANGED <<dirVars, xprev, loops>>
    /\ UNCHANGED <<wnominal, calls, after_stop>>

\* if self._try_https_auth(): return True
AuthHttps ==
    /\ client.pc = "https"
    /\ Attempt("https", IF client.port = DefaultPort THEN HttpsPort ELSE client.port,
               FALSE, "alt")
    /\ UNCHANGED <<now, bufferVars, writerVars, extractVars, cliVars, waitVars>>
    /\ UNCHANGED <<cycleVars, streamVars>>
    /\ UNCHANGED <<dirVars, xprev, loops>>
    /\ UNCHANGED <<wnominal, calls, after_stop>>

\* for alt_port in [8000, 443, 9000]: if alt_port != self.port: ...
AuthAltPort ==
    /\ client.pc = "alt"
    /\ client.idx <= Len(AltPorts)
    /\ IF AltPorts[client.idx] = client.port
       THEN client' = [client EXCEPT !.idx = @ + 1]
       ELSE Attempt("http", AltPorts[client.idx], TRUE, "alt")
    /\ UNCHANGED <<now, bufferVars, writerVars, extractVars, cliVars, waitVars>>
    /\ UNCHANGED <<cycleVars, streamVars>>
    /\ UNCHANGED <<dirVars, xprev, loops>>
    /\ UNCHANGED <<wnominal, calls, after_stop>>

\* self.logger.error("All authentication methods failed"); return False
AuthFail ==
    /\ client.pc = "alt"
    /\ client.idx > Len(AltPorts)
    /\ client' = [client EXCEPT !.pc = "returned", !.ret = FALSE]
    /\ UNCHANGED <<now, bufferVars, writerVars, extractVars, cliVars, waitVars>>
    /\ UNCHANGED <<cycleVars, streamVars>>
    /\ UNCHANGED <<dirVars, xprev, loops>>
    /\ UNCHANGED <<wnominal, calls, after_stop>>

InitAuth ==
    /\ now = 0
    /\ segments = {}
    /\ segment_duration = DefaultSegmentDuration
    /\ buffer_duration = DefaultBufferDuration
    /\ buffer_dir = DefaultBufferDir
    /\ WriterInit
    /\ ExtractInit
    /\ CliInit
    /\ WaitInit
    /\ DirInit
    /\ wnominal = NoCycle
    /\ calls = <<>>
    /\ after_stop = 0
    /\ client \in {NewClient(port) : port \in ConfigPorts}
    /\ CycleInit
    /\ StreamInit

NextAuth ==
    \/ AuthCall
    \/ AuthStandard
    \/ AuthHttps
    \/ AuthAltPort
    \/ AuthFail

SpecAuth == InitAuth /\ [][NextAuth]_vars

(***************************************************************************)
(* Claims about the rolling buffer, checked under Spec.                    *)
(***************************************************************************)

\* C1: a request whose duration exceeds buffer_duration is rejected before any
\* extraction work: extract_clip never lists segments (and so never selects,
\* raises for the window, writes the manifest or runs the tool) for it.
C1_OversizeRejectedBeforeWork ==
    xdur > buffer_duration =>
        xpc \notin {"selected", "raised_window", "manifest", "returned", "raised_tool"}

\* C5: right after an eviction pass every remaining segment starts no earlier
\* than now - (buffer_duration + segment_duration).
C5_EvictionBoundsAge ==
    [][(wpc = "cleanup" /\ wpc' = "open") =>
          \A s \in segments' :
              s * TicksPerSecond >=
                  now' - (buffer_duration + segment_duration) * TicksPerSecond]_vars

\* C6: when the transcode tool reads the manifest of an extraction, every
\* segment the manifest names still exists: the evictor never deleted one.
C6_ManifestSegmentsExistAtRead ==
    [][(xpc = "manifest" /\ xpc' \in {"returned", "raised_tool"}) =>
          SeqToSet(manifest.files) \subseteq segments]_vars

\* C7: when an extract_clip call that wrote the manifest returns or raises,
\* the manifest file no longer exists.
C7_ManifestRemovedAfterCall ==
    xpc \in {"returned", "raised_tool"} => ~manifest.exists

(***************************************************************************)
(* Claims about the command lines, checked under SpecCli.                  *)
(***************************************************************************)
\* The seconds of the window [start_time, start_time + duration) that lie
\* inside some segment.
CoveredSeconds(segs, start_time, duration, segdur) ==
    {t \in UNION {s .. (s + segdur - 1) : s \in segs} :
        start_time <= t /\ t < start_time + duration}

\* A gap between two covering segments: a second of the window inside no
\* segment, with a covered second of the window before it and after it.
GapBetweenCovering(segs, start_time, duration, segdur) ==
    LET cov == CoveredSeconds(segs, start_time, duration, segdur)
    IN  \E u \in cov, v \in cov : v > u + 1 /\ (u + 1) \notin cov

\* The segments cover every second of a window that is not empty.
ContiguouslyCovered(segs, start_time, duration, segdur) ==
    /\ duration >= 1
    /\ Cardinality(CoveredSeconds(segs, start_time, duration, segdur)) = duration

Printed(msg) == msg \in SeqToSet(cout)

PastChecks == cpc \in {"call", "extracting", "exited"} /\ cout # <<"usage">>

ToolInvoked == xpc \in {"returned", "raised_tool", "hung"}

OutputSane == output.exists /\ output.size >= SanityThreshold

\* C2: a request whose window has a gap between two covering segments is
\* rejected with a coverage error (exit status 2) and the transcode tool is
\* never invoked for it.
C2_GapInWindowRejected ==
    (PastChecks /\ cdur <= buffer_duration
       /\ GapBetweenCovering(segments, corig, cdur, segment_duration))
    => (~ToolInvoked /\ (cpc = "exited" => cexit = 2))

\* C3: when the segments contiguously cover the requested (non-empty) window,
\* the request is not turned down: the start worked with is the requested
\* start, extract_clip is called with exactly the requested start and
\* duration and runs the tool, and a sane result is reported as extracted.
C3_CoveredWindowExtractedAsRequested ==
    (PastChecks /\ cdur <= buffer_duration
       /\ ContiguouslyCovered(segments, corig, cdur, segment_duration))
    => /\ cstart = corig
       /\ xpc # "raised_window"
       /\ (xpc # "idle" => xstart = corig /\ xdur = cdur)
       /\ (cpc = "exited" => ToolInvoked)
       /\ (cpc = "exited" /\ xpc = "returned" /\ OutputSane => Printed("clip extracted"))

C3_Witness ==
    /\ cpc = "exited"
    /\ cli = "scripts"
    /\ cdur >= 2
    /\ corig >= 1
    /\ ContiguouslyCovered(segments, corig, cdur, segment_duration)
    /\ xstart = corig
    /\ cexit = 0

\* C4: with no segment in the buffer directory a request within the retention
\* limit ends with the error outcome for a window that is not in the buffer
\* (exit status 2), an empty available-window report, no uncaught exception
\* and no run of the transcode tool.
C4_EmptyBufferReportsNotInWindow ==
    (segments = {} /\ cpc = "exited" /\ cout # <<"usage">> /\ cdur <= buffer_duration)
    => /\ cexit = 2
       /\ (Printed("not in buffer window") \/ Printed("no segments found"))
       /\ ~Printed("IndexError")
       /\ creport = <<>>
       /\ ~ToolInvoked

\* C8: success is reported only for an output file that exists and holds at
\* least 1024 bytes; when the tool exits 0 and the output is missing or
\* smaller, the request fails (exit status 2) and nothing is uploaded.
C8_SuccessOnlyWithSaneOutput ==
    /\ (Printed("clip extracted") \/ cexit = 0) => (xpc = "returned" /\ OutputSane)
    /\ (cpc = "exited" /\ xpc = "returned" /\ ~OutputSane)
       => (cexit = 2 /\ Printed("empty or too small")
             /\ ~Printed("uploaded") /\ ~Printed("upload failed"))

C8_Witness ==
    /\ cpc = "exited"
    /\ xpc = "returned"
    /\ output.exists
    /\ output.size = SanityThreshold - 1
    /\ cexit = 2

(***************************************************************************)
(* Claims about wait_for_future_segments, checked under SpecWait.          *)
(***************************************************************************)
\* C9: wait_for_future_segments always returns, whatever the write loop does,
\* and no later than one poll interval after min(timeout, needed_end + 1 s -
\* call time) has passed since the call.
C9_WaitAlwaysReturnsInTime ==
    /\ [](waitpc = "loop" => now <= WaitDeadline(start_wait, needed_end, wtimeout))
    /\ ((waitpc = "loop") ~> WaitReturned)

\* The wait gave up on the clock while the write loop produced no segment.
C9_Witness ==
    /\ waitpc = "false"
    /\ segments = {}
    /\ now > start_wait
    /\ needed_end * TicksPerSecond > start_wait

\* C10: a wait for a window end that lies in the future by less than the
\* timeout, beside a healthy write loop, never returns False.
C10_HealthyWriterWaitSucceeds ==
    ~ /\ waitpc \in {"false", "timeout"}
      /\ healthy
      /\ needed_end * TicksPerSecond > start_wait
      /\ needed_end * TicksPerSecond - start_wait < wtimeout * TicksPerSecond

(***************************************************************************)
(* Claims about the write cycle.                                           *)
(***************************************************************************)
\* C11: a listing of the segments never returns a segment whose writer has
\* been opened and not yet released: the segments extract_clip selects from
\* its listing do not include the one the write loop is writing.
C11_ListingOmitsOpenSegment ==
    [][(xpc = "idle" /\ xpc' # "idle" /\ wpc = "write") =>
          (wstart \div TicksPerSecond) \notin SeqToSet(needed')]_vars

\* C12: a failed frame read does not end the write cycle: a cycle in which a
\* read failed has still made all its frames_to_write reads when its writer
\* is released.
C12_FailedReadSkipped ==
    (wpc = "sleep" /\ wreads > wframes) =>
        wreads = FramesToWrite(fps, segment_duration)

(***************************************************************************)
(* Claims about the ingest loop and the current frame, checked under       *)
(* SpecIngest.                                                             *)
(***************************************************************************)
\* C13: a failed frame read in _stream_loop leaves current_frame and the
\* frame ring unchanged and does not end the loop: the loop goes from a
\* failed read to its back-off and from there, always and only, to the loop
\* head, where another read is made while is_running is true; the loop ends
\* only when is_running is false.
C13_FailedReadKeepsIngestGoing ==
    [][/\ (spc = "head" /\ is_running /\ spc' # spc /\ nframes' = nframes)
            => /\ current_frame' = current_frame
               /\ frame_buffer' = frame_buffer
               /\ spc' = "backoff"
       /\ (spc = "backoff" /\ spc' # spc) => spc' = "head"
       /\ (spc = "head" /\ is_running /\ spc' # spc)
            => spc' \in {"backoff", "set_current"}
       /\ (spc # "done" /\ spc' = "done") => ~is_running]_vars
    /\ ((spc = "backoff") ~> (spc = "head"))

\* A read has failed after frames had been ingested.
C13_Witness ==
    /\ spc = "backoff"
    /\ is_running
    /\ current_frame # NoFrame
    /\ Len(frame_buffer) >= 2

\* C14: the frame ring never holds more than buffer_seconds * 30 entries,
\* and after n appended frames it holds exactly the most recent
\* min(n, capacity) of them in arrival order.
C14_RingKeepsMostRecent ==
    /\ Len(frame_buffer) <= buffer_seconds * RingFps
    /\ Len(frame_buffer) = Min({Appended, buffer_seconds * RingFps})
    /\ \A i \in 1 .. Len(frame_buffer) :
          frame_buffer[i].frame.val = Appended - Len(frame_buffer) + i

\* Two frames have been dropped from a full ring.
C14_Witness ==
    /\ buffer_seconds = 1
    /\ Len(frame_buffer) = buffer_seconds * RingFps
    /\ frame_buffer[1].frame.val = 3

\* C18: get_current_frame returns None exactly when no frame has been
\* ingested; otherwise it returns the most recently ingested picture in an
\* array that nobody else holds: later ingestion does not change what was
\* returned, and drawing on it changes nothing the handler holds.
C18_CurrentFrameIsDefensiveCopy ==
    ngets > 0 =>
        /\ (got = NoFrame) <=> (gotlatest = 0)
        /\ got # NoFrame =>
              /\ got.val \in {gotlatest, Scribbled}
              /\ got.obj # current_frame.obj
              /\ got.obj # frame.obj
              /\ \A i \in 1 .. Len(frame_buffer) : frame_buffer[i].frame.obj # got.obj
        /\ current_frame.val # Scribbled
        /\ frame.val # Scribbled
        /\ \A i \in 1 .. Len(frame_buffer) : frame_buffer[i].frame.val # Scribbled

\* A returned frame has been drawn on, and a later frame has been ingested.
C18_Witness ==
    /\ got.val = Scribbled
    /\ gotlatest >= 1
    /\ current_frame.val > gotlatest

(***************************************************************************)
(* Claims about recordings from the frame ring, checked under SpecRecord   *)
(* and SpecBatch.                                                          *)
(***************************************************************************)
\* The entries of a ring with start_time <= timestamp <= end_time, in order.
WindowFrames(ring, start_time, end_time) ==
    SelectSeq(ring, LAMBDA e : start_time <= e.timestamp /\ e.timestamp <= end_time)

\* The write loop of _write_historical_frames has passed the whole ring and
\* still holds buffer_lock.
WriteLoopEnded == rpc = "write" /\ ridx > Len(frame_buffer)

\* C15: _write_historical_frames writes exactly the ring entries with
\* start_time <= timestamp <= end_time, each once and in ring order (at every
\* point of its loop: those among the entries passed so far), and the ring
\* does not change while it runs.
C15_WritesExactlyWindowFrames ==
    [][/\ rpc' = "write" =>
            writer'.frames =
                WindowFrames(SubSeq(frame_buffer', 1, ridx' - 1), rstart', rend')
       /\ rpc = "write" => frame_buffer' = frame_buffer]_vars

\* Two of three ring entries have been written.
C15_Witness ==
    /\ WriteLoopEnded
    /\ Len(frame_buffer) = 3
    /\ Len(writer.frames) = 2

\* C16: a call with end_time later than the clock at the call works with
\* end_time clamped to that instant, logs exactly one warning, and writes no
\* frame whose timestamp is later than that instant.
C16_FutureEndClamped ==
    (rpc # "idle" /\ rcall.end > rcall.time) =>
        /\ rend = rcall.time
        /\ rwarn = 1
        /\ \A i \in 1 .. Len(writer.frames) : writer.frames[i].timestamp <= rcall.time

\* A clamped call has passed a ring that holds a frame ingested after the
\* call, and has written an earlier one.
C16_Witness ==
    /\ WriteLoopEnded
    /\ rcall.end > rcall.time
    /\ Len(writer.frames) >= 1
    /\ \E i \in 1 .. Len(frame_buffer) : frame_buffer[i].timestamp > rcall.time

\* C17: no reader holds buffer_lock while it calls writer.write: whenever a
\* frame is written to the output, buffer_lock is free.
C17_NoWriteUnderBufferLock ==
    [][Len(writer'.frames) > Len(writer.frames) => buffer_lock = "free"]_vars

\* C19: a call made when the ring holds frames, for a window that has ended
\* (start_time <= end_time <= now), whose writer opens, returns a recording
\* id, has made exactly one writer, has written at least one frame to it and
\* has released it exactly once.
C19_PastWindowRecorded ==
    (/\ rpc = "returned"
     /\ rcall.ring >= 1
     /\ rcall.end <= rcall.time
     /\ rstart <= rcall.end
     /\ (writer.made = 1 => writer.opened))
    => /\ rid # NoRecording
       /\ writer.made = 1
       /\ Len(writer.frames) >= 1
       /\ writer.released = 1

\* The pairs of a list for which a writer was made and opened.
Recorded(log) == SelectSeq(log, LAMBDA b : b.made = 1 /\ b.opened)

\* C20: record_segment_from_timestamps hands the pairs to
\* start_segment_recording in the given order, each once; at most one writer
\* is made per pair, and exactly one when a current frame exists; the list it
\* returns holds, in order, one recording id for each pair that was recorded,
\* so its length is the number of pairs when a current frame exists and
\* every writer opens.
C20_OneIdPerRecordedPair ==
    bpc = "returned" =>
        /\ Len(blog) = Len(timestamps)
        /\ \A i \in 1 .. Len(blog) :
              /\ blog[i].pair = timestamps[i]
              /\ blog[i].made <= 1
              /\ blog[i].frame => blog[i].made = 1
        /\ Len(recording_ids) = Len(Recorded(blog))
        /\ \A j \in 1 .. Len(recording_ids) :
              /\ recording_ids[j] = Recorded(blog)[j].rid
              /\ recording_ids[j] # NoRecording
        /\ (\A i \in 1 .. Len(blog) : blog[i].frame /\ blog[i].opened)
              => Len(recording_ids) = Len(timestamps)

\* Of two pairs the first was not recorded and the second was.
C20_Witness ==
    /\ bpc = "returned"
    /\ Len(timestamps) = 2
    /\ Len(recording_ids) = 1
    /\ blog[1].rid = NoRecording
    /\ blog[2].rid # NoRecording

(***************************************************************************)
(* Claims about the eviction pass, checked under SpecDir.                  *)
(***************************************************************************)

\* C21: a file segment_*.mp4 whose timestamp part does not parse never makes
\* the write loop's eviction pass fail with an exception.
C21_MalformedNameNeverFatal ==
    badnames # {} => wpc # "raised"

\* The k newest of a set of segments, by start time.
Newest(segs, k) == {s \in segs : Cardinality({t \in segs : t > s}) < k}

\* k = min(n, floor(bufferDuration / segmentDuration))
KeepCount(segs, segdur, bufdur) == Min({Cardinality(segs), bufdur \div segdur})

\* The segments an eviction pass is to remove.
Candidates(segs, segdur, bufdur) == segs \ Newest(segs, KeepCount(segs, segdur, bufdur))

\* C22: an eviction pass over well-named files returns to the write loop
\* whatever removals fail: each failure is logged and its file left, and every
\* other eviction candidate is removed.
C22_RemovalFailureLoggedAndSkipped ==
    [][(wpc = "cleanup" /\ wpc' # wpc /\ badnames = {}) =>
         LET candidates == Candidates(segments, segment_duration, buffer_duration)
         IN  /\ wpc' = "open"
             /\ evictlog' = Cardinality(candidates \cap stuck)
             /\ \A c \in candidates : c \in segments' <=> c \in stuck
      ]_vars

\* A pass has returned in which the removal of segment 1 failed and the older
\* candidate 0, tried after it, was removed.
C22_Witness ==
    /\ wpc = "open"
    /\ evictlog = 1
    /\ stuck = {1}
    /\ evicted = {0}
    /\ segments = {1, 2}

\* C29: after an eviction pass in which no removal fails, what remains is
\* exactly the k newest segments, k = min(n, buffer_duration \div
\* segment_duration) for the n segments present before the pass.
C29_KeepsExactlyNewest ==
    [][(wpc = "cleanup" /\ wpc' = "open" /\ evictlog' = 0) =>
         segments' = Newest(segments, KeepCount(segments, segment_duration, buffer_duration))
      ]_vars

\* A pass without a failed removal has deleted two of three segments.
C29_Witness ==
    /\ wpc = "open"
    /\ evictlog = 0
    /\ Cardinality(evicted) = 2
    /\ Cardinality(segments) = 1
    /\ \A e \in evicted : \A s \in segments : e < s

(***************************************************************************)
(* Claims about extract_clip, checked under Spec.                          *)
(***************************************************************************)

\* C23: when a selected segment has disappeared by the time the tool is to
\* read it, the next step of the extraction lists the directory again and
\* rechecks the window instead of running the tool on the old selection.
C23_MissingSegmentRelisted ==
    [][(xpc = "manifest" /\ xpc' # xpc /\ ~(SeqToSet(needed) \subseteq segments)) =>
         /\ needed' = NeededSegments(segments, xstart, xdur, segment_duration)
         /\ xpc' \in {"selected", "raised_window"}
      ]_vars

\* C24: the wait for the transcode tool is bounded: extract_clip is never
\* left waiting on a tool that does not return.
C24_ToolCallBounded ==
    xpc # "hung"

\* C30: the trim offset handed to the tool is max(0, start - first covering
\* segment's start), never negative.
C30_TrimOffsetClamped ==
    xpc \in {"returned", "raised_tool", "hung"} => xss = Max({0, xstart - needed[1]})

(***************************************************************************)
(* Claims about repeated extraction, checked under SpecRepeat.             *)
(***************************************************************************)

\* C26: on an unchanged segment set a call of extract_clip with the start and
\* duration of the call before it works with the same ordered selection, is
\* turned down exactly if that one was, hands the tool the same manifest
\* lines and the same trim offset.
C26_RepeatedExtractionSame ==
    (xprev.called /\ xpc # "idle" /\ xprev.start = xstart /\ xprev.duration = xdur)
    => /\ needed = xprev.needed
       /\ (xpc = "raised_window") = xprev.raised_window
       /\ (xpc \in {"manifest", "returned", "raised_tool", "hung"}
             => manifest.files = xprev.files)
       /\ (xpc \in {"returned", "raised_tool", "hung"} => xss = xprev.ss)

\* The second of two calls for the same window over two segments has returned.
C26_Witness ==
    /\ xprev.called
    /\ ~xprev.raised_window
    /\ xpc = "returned"
    /\ xprev.start = xstart
    /\ xprev.duration = xdur
    /\ Len(needed) >= 2
    /\ manifest.files = needed

(***************************************************************************)
(* Claims about start_stream and stop_stream, checked under SpecThreads.   *)
(***************************************************************************)

\* C27: at most one ingest thread is running _stream_loop on a handler at
\* any time, whatever the order of start_stream and stop_stream calls.
C27_AtMostOneIngestThread ==
    loops <= 1

(***************************************************************************)
(* Claims about the command lines' results, checked under SpecCli.         *)
(***************************************************************************)

\* What a run of scripts/extract_clip.py ended with, by what it printed.
CliOutcome ==
    CASE Printed("usage") -> "invalid input"
      [] Printed("exceeds buffer maximum") -> "duration exceeds retention"
      [] Printed("not in buffer window") \/ Printed("not fully covered")
           \/ Printed("no segment at or before start") -> "window not covered"
      [] Printed("empty or too small") -> "failed size check"
      [] Printed("uploaded") -> "success"
      [] OTHER -> "other"

\* C25: the exit status tells the five outcomes apart: among them status 0
\* belongs to success only, status 1 to invalid input only and status 2 to a
\* window that is not covered only.
C25_ExitStatusTellsOutcome ==
    (cli = "scripts" /\ cpc = "exited") =>
       /\ (cexit = 0 => CliOutcome = "success")
       /\ (cexit = 1 => CliOutcome \in {"invalid input", "other"})
       /\ (cexit = 2 => CliOutcome \in {"window not covered", "other"})

\* C28: a command line goes on to extract_clip exactly if, for the window it
\* works with, the covering segments (start + segment_duration > window
\* start and start < window end) are there, the earliest of them starts at
\* or before the window's start and the latest ends at or after its end.
C28_CoverageDecision ==
    [][(cpc = "gather" /\ cpc' # cpc) =>
         LET covering == {seg \in segments : /\ seg + segment_duration > cstart'
                                             /\ seg < cstart' + cdur}
         IN  (cpc' = "call") <=>
                /\ covering # {}
                /\ Min(covering) <= cstart'
                /\ Max(covering) + segment_duration >= cstart' + cdur
      ]_vars

\* A command line has decided that a window over several segments is covered.
C28_Witness ==
    /\ cpc = "call"
    /\ cdur >= 2
    /\ Len(NeededSegments(segments, cstart, cdur, segment_duration)) >= 2

(***************************************************************************)
(* Claims about the cadence of the write loop.                             *)
(***************************************************************************)

\* C31: every write cycle after the first opens a segment whose whole-second
\* name is later than the name of the cycle before it and is not the name of
\* a file in the directory: no cycle reuses an earlier cycle's file name.
C31_SegmentNamesIncrease ==
    [][(wpc = "open" /\ wpc' = "write" /\ wake > 0) =>
         /\ wstart' \div TicksPerSecond > wstart \div TicksPerSecond
         /\ (wstart' \div TicksPerSecond) \notin segments
      ]_vars

\* A third cycle has opened its segment while two earlier ones are on disk.
C31_Witness ==
    /\ wpc = "write"
    /\ wake > 0
    /\ Cardinality(segments) >= 3
    /\ wstart \div TicksPerSecond = Max(segments)

\* C32: the write loop sleeps until the nominal start of the next segment,
\* stream start + N * segment_duration, and no longer (or not at all when that
\* time has passed): a cycle that began late does not make the next one late.
C32_SleepsUntilNominalStart ==
    [][(wpc = "write" /\ wpc' = "sleep") =>
         wake' = Max({now, wnominal + segment_duration * TicksPerSecond})
      ]_vars

\* C33: a write cycle adds one file, named by its start, when it opens; the
\* file is on disk when the cycle has released its writer, with no frame
\* written too; and the next cycle opens another name, not the same slot.
C33_OneSegmentPerCycle ==
    [][/\ (wpc = "open" /\ wpc' = "write") =>
            /\ segments' = segments \cup {wstart' \div TicksPerSecond}
            /\ (wnominal # NoCycle =>
                   wstart' \div TicksPerSecond # wstart \div TicksPerSecond)
       /\ (wpc = "write" /\ wpc' = "sleep") =>
            /\ (wstart \div TicksPerSecond) \in segments'
            /\ segments' = segments
      ]_vars

\* A second cycle has ended on a failed first read: no frame was written and
\* its segment is on disk beside the first one.
C33_Witness ==
    /\ wpc = "sleep"
    /\ wbreak
    /\ wreads = 1
    /\ wframes = 0
    /\ Cardinality(segments) >= 2
    /\ (wstart \div TicksPerSecond) \in segments

\* C34: with every removal succeeding, from the first eviction pass on the
\* directory never holds more than buffer_duration \div segment_duration
\* segments plus the one being written.
C34_SegmentCountBounded ==
    (badnames = {} /\ stuck = {} /\ ~(wpc = "cleanup" /\ wnominal = NoCycle)) =>
        Cardinality(segments) <= (buffer_duration \div segment_duration) + 1

\* The directory is at the bound while a segment is being written, after
\* the first pass has removed older segments.
C34_Witness ==
    /\ badnames = {}
    /\ stuck = {}
    /\ wpc = "write"
    /\ evicted # {}
    /\ Cardinality(segments) = (buffer_duration \div segment_duration) + 1

(***************************************************************************)
(* More claims about extract_clip.                                         *)
(***************************************************************************)

\* C36: extract_clip raises "Requested time is not in buffer window." only
\* when its selection of overlapping segments is empty, and goes on to the
\* manifest and the tool whenever it is not, whatever buffer_dir is.
C36_RaisesOnlyWithoutOverlap ==
    /\ (xpc = "raised_window" => needed = <<>>)
    /\ (xpc \in {"selected", "manifest", "returned", "raised_tool", "hung"} => needed # <<>>)

(***************************************************************************)
(* More claims about start_segment_recording.                              *)
(***************************************************************************)

\* C37: the recording ids one call of record_segment_from_timestamps
\* collects from start_segment_recording are pairwise distinct.
C37_RecordingIdsDistinct ==
    \A i \in 1 .. Len(recording_ids) : \A j \in 1 .. Len(recording_ids) :
        i # j => recording_ids[i] # recording_ids[j]

\* C38: a call that finds no current frame returns None having made no
\* writer; a call whose writer does not open returns None having written no
\* frame; neither step changes the ring or the current frame.
C38_NoFrameOrNoWriterGivesNone ==
    [][/\ (rpc = "check_frame" /\ rpc' # rpc /\ current_frame = NoFrame) =>
            /\ rpc' = "returned"
            /\ rid' = NoRecording
            /\ writer' = NoWriter
            /\ frame_buffer' = frame_buffer
            /\ current_frame' = current_frame
       /\ (rpc = "open" /\ rpc' # rpc /\ ~writer'.opened) =>
            /\ rpc' = "returned"
            /\ rid' = NoRecording
            /\ writer'.frames = <<>>
            /\ frame_buffer' = frame_buffer
            /\ current_frame' = current_frame
       /\ (rpc' = "returned" /\ rid' # NoRecording) => (writer'.made = 1 /\ writer'.opened)
      ]_vars

\* A call made on a running handler before the first frame has returned
\* None without a writer.
C38_Witness ==
    /\ rpc = "returned"
    /\ is_running
    /\ current_frame = NoFrame
    /\ rid = NoRecording
    /\ writer = NoWriter

(***************************************************************************)
(* Claims about stop_stream, checked under SpecStop.                       *)
(***************************************************************************)

\* C39: once stop_stream has been called is_running stays false, the ingest
\* loop ends, and at most one frame is appended to the ring after the call.
C39_StopEndsIngest ==
    /\ [](after_stop <= 1)
    /\ [][(~is_running /\ spc # "not_started") => ~is_running']_vars
    /\ ((~is_running /\ spc # "not_started") ~> (spc = "done"))

\* The loop has ended after stop_stream was called in the middle of an
\* iteration: that iteration's frame went into the ring.
C39_Witness ==
    /\ spc = "done"
    /\ ~is_running
    /\ after_stop = 1

(***************************************************************************)
(* Claims about concurrent extraction, checked under SpecConc.             *)
(***************************************************************************)

\* C35: the manifest the tool of a call has read lists exactly that call's
\* own selection, in every interleaving of concurrent calls.
C35_ToolReadsOwnManifest ==
    \A c \in Callers : calls[c].pc = "ran" => calls[c].read = calls[c].needed

(***************************************************************************)
(* Claims about ReolinkClient.authenticate, checked under SpecAuth.        *)
(***************************************************************************)

\* The methods authenticate goes through when none succeeds, for a client
\* configured with port p.
AllMethods(p) ==
    <<[method |-> "http", port |-> p],
      [method |-> "https", port |-> IF p = 80 THEN 443 ELSE p]>>
    \o [i \in 1 .. Len(SelectSeq(<<8000, 443, 9000>>, LAMBDA a : a # p)) |->
          [method |-> "http", port |-> SelectSeq(<<8000, 443, 9000>>, LAMBDA a : a # p)[i]]]

\* C40: authenticate returns False exactly when every method it attempted
\* failed; it has then attempted standard HTTP, HTTPS and each alternative
\* port other than the configured one, and token and port are what they
\* were at the call; the port differs from the one at the call only when
\* the last attempt was on that alternative port and succeeded.
C40_AuthenticateFalseIffAllFail ==
    client.pc = "returned" =>
        /\ ~client.ret <=> (\A i \in 1 .. Len(client.tried) : ~client.tried[i].ok)
        /\ ~client.ret =>
              /\ [i \in 1 .. Len(client.tried) |->
                     [method |-> client.tried[i].method, port |-> client.tried[i].port]]
                 = AllMethods(client.port_at_call)
              /\ client.token = client.token_at_call
              /\ client.port = client.port_at_call
        /\ client.port # client.port_at_call =>
              LET last == client.tried[Len(client.tried)]
              IN  /\ Len(client.tried) >= 3
                  /\ last.ok
                  /\ last.method = "http"
                  /\ last.port = client.port

\* A new client on port 80 has failed over all five methods, one of them
\* by a session login that failed at the first format.
C40_Witness ==
    /\ client.pc = "returned"
    /\ ~client.ret
    /\ client.ncalls = 1
    /\ client.port = 80
    /\ client.token = NoToken
    /\ Len(client.tried) = 5
    /\ \E i \in 1 .. 5 : client.tried[i].formats = 1

====
